---- MODULE Spec2Model ----
(***************************************************************************)
(* Pathpad: the SQLite pad store, the TTL cache, the SSE broadcaster and   *)
(* the HTTP handlers that tie them together.                               *)
(*                                                                         *)
(* A path is a sequence of one-character strings, so that the byte-level   *)
(* prefix test of Cache.InvalidatePrefix and the SQL LIKE pattern of        *)
(* SQLiteStore.DeletePad are computed as the code computes them.           *)
(***************************************************************************)
EXTENDS Integers, Sequences, FiniteSets, TLC

\* ------------------------------------------------------------------ bounds

\* Handler goroutines that may run at the same time.
NumProcs == 2
\* Requests started in one behaviour of the sequential server.
MaxRequests == 3
\* Requests started in one behaviour of the concurrent server.
ConcRequests == 2
\* SSE connections (ServeHTTP invocations) of the broadcaster specification.
NumConns == 3
\* The clock runs from 1 to MaxTime (seconds).
MaxTime == 2
\* Cache TTL in seconds (config.CacheTTL, default 300).
CacheTTL == 0
\* Largest configured SSEMaxClients (default 50); every value 0..MaxClientsCap is tried.
MaxClientsCap == 2
\* Capacity of a subscriber channel. The code makes it 16 (make(chan Event, 16));
\* the model scales it down, a buffered channel behaving alike at every capacity >= 1.
ChanCap == 2

\* ------------------------------------------------------------------- paths

Root == <<>>
PathA == <<"a">>
PathAB == <<"a", "b">>
PathABC == <<"a", "b", "/", "c">>
PathAU == <<"a", "_">>
\* Rejected by ValidatePath: a segment may not start with '_'.
PathBad == <<"_">>

\* Normalized paths that pass ValidatePath.
Paths == {Root, PathA, PathAB, PathABC, PathAU}
\* Paths a request may carry after NormalizePath.
ReqPaths == Paths \cup {PathBad}

Contents == {"x", "y"}
ClientIDs == {"c1", "c2", "c3"}
\* The client_id a writer or deleter passes.
Actors == {"c1"}

Alnum ==
  {"a", "b", "c", "d", "e", "f", "g", "h", "i", "j", "k", "l", "m", "n", "o", "p", "q",
   "r", "s", "t", "u", "v", "w", "x", "y", "z", "0", "1", "2", "3", "4", "5", "6", "7",
   "8", "9"}

\* strings.Index(s, "/") as a 1-based position, 0 when there is none.
FirstSlash(s) ==
  IF \E i \in 1..Len(s) : s[i] = "/"
  THEN CHOOSE i \in 1..Len(s) : s[i] = "/" /\ \A j \in 1..(i - 1) : s[j] # "/"
  ELSE 0

\* strings.LastIndex(s, "/") as a 1-based position, 0 when there is none.
LastSlash(s) ==
  IF \E i \in 1..Len(s) : s[i] = "/"
  THEN CHOOSE i \in 1..Len(s) : s[i] = "/" /\ \A j \in (i + 1)..Len(s) : s[j] # "/"
  ELSE 0

\* strings.Split(path, "/")
RECURSIVE Split(_)
Split(s) ==
  IF FirstSlash(s) = 0 THEN <<s>>
  ELSE <<SubSeq(s, 1, FirstSlash(s) - 1)>> \o Split(SubSeq(s, FirstSlash(s) + 1, Len(s)))

\* validSegment: ^[a-z0-9][a-z0-9_-]*$
validSegment(seg) ==
  /\ Len(seg) >= 1
  /\ seg[1] \in Alnum
  /\ \A i \in 1..Len(seg) : seg[i] \in Alnum \cup {"_", "-"}

reservedPaths ==
  { <<"a", "p", "i">>,
    <<"s", "t", "a", "t", "i", "c">>,
    <<"h", "e", "a", "l", "t", "h", "z">>,
    <<"m", "a", "n", "i", "f", "e", "s", "t", ".", "j", "s", "o", "n">>,
    <<"s", "w", ".", "j", "s">>,
    <<"f", "a", "v", "i", "c", "o", "n", ".", "i", "c", "o">> }

maxDepth == 10
maxSegmentLength == 64
maxPathLength == 512

\* A validation that never looks at the length of the whole path.
ValidatePathNoLengthLimit(path) ==
  \/ path = Root
  \/ /\ Len(Split(path)) <= maxDepth
     /\ Split(path)[1] \notin reservedPaths
     /\ \A i \in 1..Len(Split(path)) :
          /\ Split(path)[i] # <<>>
          /\ Len(Split(path)[i]) <= maxSegmentLength
          /\ validSegment(Split(path)[i])

\* ValidatePath(path) == nil
ValidatePath(path) ==
  \/ path = Root
  \/ /\ Len(path) <= maxPathLength
     /\ Len(Split(path)) <= maxDepth
     /\ Split(path)[1] \notin reservedPaths
     /\ \A i \in 1..Len(Split(path)) :
          /\ Split(path)[i] # <<>>
          /\ Len(Split(path)[i]) <= maxSegmentLength
          /\ validSegment(Split(path)[i])

\* ParentPath: the path up to its last separator; "" for the root and for one segment.
ParentPath(path) ==
  IF path = Root THEN Root
  ELSE IF LastSlash(path) = 0 THEN Root
  ELSE SubSeq(path, 1, LastSlash(path) - 1)

\* ------------------------------------------------------------------- store

\* SQLite's LIKE: '%' matches any run of characters, '_' any one character, every
\* other character itself (no ESCAPE clause is given).
RECURSIVE Like(_, _)
Like(str, pat) ==
  IF pat = <<>> THEN str = <<>>
  ELSE IF Head(pat) = "%"
    THEN Like(str, Tail(pat)) \/ (str # <<>> /\ Like(Tail(str), pat))
  ELSE /\ str # <<>>
       /\ (Head(pat) = "_" \/ Head(pat) = Head(str))
       /\ Like(Tail(str), Tail(pat))

\* The rows DELETE FROM pads [WHERE path = ? OR path LIKE ? || '/%'] removes.
DeleteMatches(rows, path) ==
  IF path = Root THEN DOMAIN rows
  ELSE {q \in DOMAIN rows : q = path \/ Like(q, path \o <<"/", "%">>)}

\* The implicit pad GetPad returns on sql.ErrNoRows.
ImplicitPad(path) ==
  [Path |-> path, Content |-> "", ParentPath |-> ParentPath(path),
   UpdatedAt |-> 0, CreatedAt |-> 0]

\* SQLiteStore.GetPad on table contents `rows`.
StoreGetPad(rows, path) ==
  IF path \in DOMAIN rows
  THEN [Path |-> path, Content |-> rows[path].content,
        ParentPath |-> rows[path].parent_path,
        UpdatedAt |-> rows[path].updated_at, CreatedAt |-> rows[path].created_at]
  ELSE ImplicitPad(path)

\* An upsert that also materializes the parent of the path when it has no row.
StoreUpsertWithParent(rows, path, content, t) ==
  [q \in DOMAIN rows \cup {path, ParentPath(path)} |->
     IF q = path
     THEN IF path \in DOMAIN rows
          THEN [rows[path] EXCEPT !.content = content, !.updated_at = t]
          ELSE [content |-> content, parent_path |-> ParentPath(path),
                updated_at |-> t, created_at |-> t]
     ELSE IF q \in DOMAIN rows THEN rows[q]
     ELSE [content |-> "", parent_path |-> ParentPath(q), updated_at |-> t, created_at |-> t]]

\* The INSERT ... ON CONFLICT(path) DO UPDATE of SQLiteStore.SavePad at time t.
StoreUpsert(rows, path, content, t) ==
  [q \in DOMAIN rows \cup {path} |->
     IF q # path THEN rows[q]
     ELSE IF path \in DOMAIN rows
       THEN [rows[path] EXCEPT !.content = content, !.updated_at = t]
     ELSE [content |-> content, parent_path |-> ParentPath(path),
           updated_at |-> t, created_at |-> t]]

\* The table after SQLiteStore.DeletePad.
StoreDelete(rows, path) ==
  [q \in DOMAIN rows \ DeleteMatches(rows, path) |-> rows[q]]

\* ------------------------------------------------------------------- cache

\* The naive prefix test a careless InvalidatePrefix would use.
PrefixMatchNaive(path, prefix) ==
  Len(path) >= Len(prefix) /\ SubSeq(path, 1, Len(prefix)) = prefix

\* The test of Cache.InvalidatePrefix:
\* path == prefix || (len(path) > len(prefix) && path[:len(prefix)] == prefix
\*                    && path[len(prefix)] == '/')
PrefixMatch(path, prefix) ==
  \/ path = prefix
  \/ /\ Len(path) > Len(prefix)
     /\ SubSeq(path, 1, Len(prefix)) = prefix
     /\ path[Len(prefix) + 1] = "/"

\* A nil *models.Pad.
Nil == [nil |-> TRUE]

\* A lookup that never looks at the expiry.
CacheGetIgnoreExpiry(es, path, t) ==
  IF path \notin DOMAIN es THEN Nil ELSE es[path].Pad

\* Cache.Get at time t: the pad, or Nil when absent or expired.
CacheGet(es, path, t) ==
  IF path \notin DOMAIN es THEN Nil
  ELSE IF t > es[path].ExpiresAt THEN Nil
  ELSE es[path].Pad

\* Cache.Set at time t of a cache built by NewCache(ttl).
CacheSetTTL(es, path, pad, t, ttl) ==
  [q \in DOMAIN es \cup {path} |->
     IF q = path THEN [Pad |-> pad, ExpiresAt |-> t + ttl] ELSE es[q]]

\* Cache.Set at time t of the server's cache.
CacheSet(es, path, pad, t) == CacheSetTTL(es, path, pad, t, CacheTTL)

\* Cache.Invalidate
CacheInvalidate(es, path) == [q \in DOMAIN es \ {path} |-> es[q]]

\* Cache.InvalidatePrefix
CacheInvalidatePrefix(es, prefix) ==
  [q \in {p \in DOMAIN es : ~PrefixMatch(p, prefix)} |-> es[q]]

\* A pass that already removes an entry at the instant of its expiry.
CacheCleanupAtExpiry(es, t) ==
  [q \in {p \in DOMAIN es : ~(t >= es[p].ExpiresAt)} |-> es[q]]

\* One pass of Cache.cleanup at time t.
CacheCleanup(es, t) ==
  [q \in {p \in DOMAIN es : ~(t > es[p].ExpiresAt)} |-> es[q]]

\* ------------------------------------------------------------- broadcaster

\* Map helpers: m[key] = val, and delete(m, key).
Put(m, key, val) == [x \in DOMAIN m \cup {key} |-> IF x = key THEN val ELSE m[x]]
Remove(m, key) == [x \in DOMAIN m \ {key} |-> m[x]]
EmptyMap == [x \in {} |-> x]

\* Event values; an omitted field holds its zero value.
UpdateEvent(content, actor) ==
  [Type |-> "update", Content |-> content, Path |-> Root, ClientID |-> actor]
DeleteEvent(path, actor) ==
  [Type |-> "delete", Content |-> "", Path |-> path, ClientID |-> actor]
ChildrenChangedEvent(actor) ==
  [Type |-> "children_changed", Content |-> "", Path |-> Root, ClientID |-> actor]

\* A capacity test that lets one subscriber too many in.
AtCapacityOffByOne(n, max) == n > max

\* Subscribe's capacity test: len(b.clients[path]) >= b.maxClients
AtCapacity(n, max) == n >= max

\* b.clients after the first statement of Subscribe: the topic's map exists.
WithTopic(cl, path) == IF path \in DOMAIN cl THEN cl ELSE Put(cl, path, EmptyMap)

\* Whether Subscribe(path, _) is refused.
SubscribeRefused(cl, path, max) ==
  AtCapacity(Cardinality(DOMAIN WithTopic(cl, path)[path]), max)

\* b.clients after Subscribe(path, clientID) registering channel ch.
SubscribeClients(cl, path, clientID, ch, max) ==
  IF SubscribeRefused(cl, path, max) THEN WithTopic(cl, path)
  ELSE Put(WithTopic(cl, path), path, Put(WithTopic(cl, path)[path], clientID, ch))

\* A cleanup that forgets to drop the emptied topic.
CleanupClientsKeepTopic(cl, path, clientID) ==
  IF path \in DOMAIN cl THEN Put(cl, path, Remove(cl[path], clientID)) ELSE cl

\* b.clients after the cleanup closure of Subscribe(path, clientID).
CleanupClients(cl, path, clientID) ==
  IF path \in DOMAIN cl
  THEN IF DOMAIN Remove(cl[path], clientID) = {}
       THEN Remove(cl, path)
       ELSE Put(cl, path, Remove(cl[path], clientID))
  ELSE cl

\* A send onto a queue without a capacity.
SelectSendUnbounded(ch, event) == [ch EXCEPT !.buf = Append(ch.buf, event)]

\* A send that makes room by dropping the oldest queued event.
SelectSendDropOldest(ch, event) ==
  IF Len(ch.buf) < ChanCap THEN [ch EXCEPT !.buf = Append(ch.buf, event)]
  ELSE [ch EXCEPT !.buf = Append(Tail(ch.buf), event)]

\* select { case ch <- event: default: } on a buffered channel.
SelectSend(ch, event) ==
  IF Len(ch.buf) < ChanCap THEN [ch EXCEPT !.buf = Append(ch.buf, event)] ELSE ch

\* The channels registered under topic `path`.
Registered(cl, path) ==
  IF path \in DOMAIN cl THEN {cl[path][id] : id \in DOMAIN cl[path]} ELSE {}

\* A broadcast that sends its event twice to every channel of the topic.
BroadcastTwice(chs, cl, path, event) ==
  [k \in DOMAIN chs |->
     IF k \in Registered(cl, path) THEN SelectSend(SelectSend(chs[k], event), event)
     ELSE chs[k]]

\* A broadcast that also reaches the topics below the published path.
BroadcastToSubtree(chs, cl, path, event) ==
  [k \in DOMAIN chs |->
     IF \E p \in DOMAIN cl : PrefixMatch(p, path) /\ k \in Registered(cl, p)
     THEN SelectSend(chs[k], event)
     ELSE chs[k]]

\* A broadcast that ignores the topic and sends to every registered channel.
BroadcastToEveryTopic(chs, cl, path, event) ==
  [k \in DOMAIN chs |->
     IF \E p \in DOMAIN cl : k \in Registered(cl, p) THEN SelectSend(chs[k], event)
     ELSE chs[k]]

\* The channels after Broadcaster.Broadcast(path, event).
Broadcast(chs, cl, path, event) ==
  [k \in DOMAIN chs |->
     IF k \in Registered(cl, path) THEN SelectSend(chs[k], event) ELSE chs[k]]

\* Broadcaster.ClientCount
ClientCount(cl, path) == IF path \in DOMAIN cl THEN Cardinality(DOMAIN cl[path]) ELSE 0

\* ------------------------------------------------------------------- state

VARIABLES
  pads,        \* table pads: materialized path -> row
  entries,     \* Cache.entries: path -> [Pad, ExpiresAt]
  now,         \* time.Now() in seconds
  clients,     \* Broadcaster.clients: path -> (client ID -> channel)
  maxClients,  \* Broadcaster.maxClients
  rl,          \* RateLimiter: [visitors, limit]
  chans,       \* the channel made by each connection's Subscribe
  conns,       \* the ServeHTTP invocations
  reqs,        \* the handler invocations
  nreq,        \* requests started so far
  hist,        \* per path, the last mutation the callers were told of
  editor       \* the browser's Editor component: its script variables

vars ==
  <<pads, entries, now, clients, maxClients, rl, chans, conns, reqs, nreq, hist, editor>>

Conns == 1..NumConns
Procs == 1..NumProcs

NoChan == [buf |-> <<>>, state |-> "none"]
\* tick: a tick of the connection's keepaliveTicker is waiting on its channel.
\* done: the request's context is cancelled (ctx.Done() is closed).
\* evt: an event was written to the client since the ticker last fired.
\* busy: an event was written to the client in the interval that ended with the tick
\* now waiting.
IdleConn ==
  [pc |-> "idle", path |-> Root, clientID |-> "", tick |-> FALSE, done |-> FALSE,
   evt |-> FALSE, busy |-> FALSE]
IdleReq ==
  [pc |-> "idle", op |-> "none", path |-> Root, content |-> "", actor |-> "",
   pad |-> Nil, count |-> 0, did |-> {}, status |-> 0, body |-> Nil, stamp |-> 0]

\* The Editor after loadPad of a pad without content: nothing typed, nothing to save.
\* typed counts the keystrokes, stopped tells the user has stopped typing and sent is
\* the content of the last save request sent (NoSave before the first).
NoSave == "none"
IdleEditor ==
  [content |-> "", lastSavedContent |-> "", saveTimeout |-> FALSE, isSaving |-> FALSE,
   inflight |-> NoSave, sent |-> NoSave, typed |-> 0, stopped |-> FALSE]

\* NewRateLimiter(requestsPerMinute): no visitor yet.
NewRateLimiter(requestsPerMinute) == [visitors |-> EmptyMap, limit |-> requestsPerMinute]

\* The default of the rate limit setting.
DefaultRateLimit == 100

\* Everything but the rate limiter after construction.
InitServer ==
  /\ pads = EmptyMap
  /\ entries = EmptyMap
  /\ now = 1
  /\ clients = EmptyMap
  /\ maxClients \in 0..MaxClientsCap
  /\ chans = [k \in Conns |-> NoChan]
  /\ conns = [k \in Conns |-> IdleConn]
  /\ reqs = [r \in Procs |-> IdleReq]
  /\ nreq = 0
  /\ hist = [p \in Paths |-> [kind |-> "none", content |-> ""]]
  /\ editor = IdleEditor

Init ==
  /\ InitServer
  /\ rl = NewRateLimiter(DefaultRateLimit)

\* ------------------------------------------------------ SSE connections

\* ServeHTTP up to its loop: Subscribe, and 429 when it is refused.
ConnSubscribe(k, path, clientID) ==
  /\ conns[k].pc = "idle"
  /\ clients' = SubscribeClients(clients, path, clientID, k, maxClients)
  /\ IF SubscribeRefused(clients, path, maxClients)
     THEN /\ conns' = [conns EXCEPT ![k] =
                         [IdleConn EXCEPT !.pc = "refused", !.path = path,
                                          !.clientID = clientID]]
          /\ UNCHANGED chans
     ELSE /\ conns' = [conns EXCEPT ![k] =
                         [IdleConn EXCEPT !.pc = "serving", !.path = path,
                                          !.clientID = clientID]]
          /\ chans' = [chans EXCEPT ![k] = [buf |-> <<>>, state |-> "open"]]
  /\ UNCHANGED <<pads, entries, now, maxClients, rl, editor, reqs, nreq, hist>>

\* The client sees the 429 and may connect again.
ConnRetry(k) ==
  /\ conns[k].pc = "refused"
  /\ conns' = [conns EXCEPT ![k] = IdleConn]
  /\ UNCHANGED <<pads, entries, now, clients, maxClients, rl, editor, chans, reqs, nreq, hist>>

\* The loop's case event, ok := <-ch: one event is written to the client.
ConnReceive(k) ==
  /\ conns[k].pc = "serving"
  /\ chans[k].buf # <<>>
  /\ chans' = [chans EXCEPT ![k].buf = Tail(chans[k].buf)]
  /\ UNCHANGED <<pads, entries, now, clients, maxClients, rl, editor, conns, reqs, nreq, hist>>

\* The loop's case <-ctx.Done(): return, and the deferred cleanup runs.
ConnCancel(k) ==
  /\ conns[k].pc = "serving"
  /\ clients' = CleanupClients(clients, conns[k].path, conns[k].clientID)
  /\ chans' = [chans EXCEPT ![k] = [buf |-> <<>>, state |-> "closed"]]
  /\ conns' = [conns EXCEPT ![k] = IdleConn]
  /\ UNCHANGED <<pads, entries, now, maxClients, rl, editor, reqs, nreq, hist>>

\* Broadcast called with any event on any topic.
Publish(path, event) ==
  /\ chans' = Broadcast(chans, clients, path, event)
  /\ UNCHANGED <<pads, entries, now, clients, maxClients, rl, editor, conns, reqs, nreq, hist>>

\* ---------------------------------------------------------------- handlers

\* What the documented contract makes of a path q after delete(p): it is gone when
\* it is p, a strict descendant of p, or anything at all under the root.
SelfOrDescendant(q, p) ==
  \/ p = Root
  \/ q = p
  \/ Len(q) > Len(p) /\ SubSeq(q, 1, Len(p) + 1) = p \o <<"/">>

\* hist after request rq was answered with `status`; `wrote` tells whether its
\* upsert had reached the table.
HistAfter(rq, status, wrote) ==
  IF rq.op = "write" /\ status = 200
    THEN [hist EXCEPT ![rq.path] = [kind |-> "write", content |-> rq.content]]
  ELSE IF rq.op = "write" /\ wrote
    THEN [hist EXCEPT ![rq.path] = [kind |-> "unknown", content |-> ""]]
  ELSE IF rq.op = "delete" /\ status = 200
    THEN [q \in Paths |->
            IF SelfOrDescendant(q, rq.path) THEN [kind |-> "delete", content |-> ""]
            ELSE hist[q]]
  ELSE hist

\* A handler that answers 200 whatever happened.
RespondAlwaysOk(r, status, body, wrote) ==
  /\ reqs' = [reqs EXCEPT ![r] =
                [IdleReq EXCEPT !.pc = "done", !.op = reqs[r].op, !.path = reqs[r].path,
                                !.content = reqs[r].content, !.actor = reqs[r].actor,
                                !.status = 200, !.body = body]]
  /\ hist' = HistAfter(reqs[r], 200, wrote)

\* jsonResponse / jsonError: the answer is written.
Respond(r, status, body, wrote) ==
  /\ reqs' = [reqs EXCEPT ![r] =
                [IdleReq EXCEPT !.pc = "done", !.op = reqs[r].op, !.path = reqs[r].path,
                                !.content = reqs[r].content, !.actor = reqs[r].actor,
                                !.status = status, !.body = body]]
  /\ hist' = HistAfter(reqs[r], status, wrote)

\* The first statement a handler runs once the path is valid.
FirstPc(op) == IF op = "read" THEN "cacheGet" ELSE "store"

\* A handler that announces right after the Store call, skipping the cache.
AfterStoreSkipCache(op) == "publish"

\* What SavePad and DeletePad do after the Store call returned: the cache.
AfterStore(op) == IF op = "write" THEN "invalidate" ELSE "invalidatePrefix"

\* What write and delete do once the cache is done: publish on the pad's topic.
AfterCache(op) == "publish"

InFlight == {r \in Procs : reqs[r].pc # "idle"}

\* A request arrives: extractPadPath and ValidatePath, 400 when the path is invalid.
\* At most `lim` handlers run at a time.
ReqStart(r, lim, max, op, path, content, actor) ==
  /\ reqs[r].pc = "idle"
  /\ nreq < max
  /\ Cardinality(InFlight) < lim
  /\ nreq' = nreq + 1
  /\ IF ValidatePath(path)
     THEN reqs' = [reqs EXCEPT ![r] =
                    [IdleReq EXCEPT !.pc = FirstPc(op), !.op = op, !.path = path,
                                    !.content = content, !.actor = actor]]
     ELSE reqs' = [reqs EXCEPT ![r] =
                    [IdleReq EXCEPT !.pc = "done", !.op = op, !.path = path,
                                    !.content = content, !.actor = actor,
                                    !.status = 400]]
  /\ UNCHANGED hist
  /\ UNCHANGED <<pads, entries, now, clients, maxClients, rl, editor, chans, conns>>

\* GetPad: h.Cache.Get(path), answered from the cache on a hit.
ReadCacheGet(r) ==
  /\ reqs[r].pc = "cacheGet"
  /\ IF CacheGet(entries, reqs[r].path, now) # Nil
     THEN Respond(r, 200, CacheGet(entries, reqs[r].path, now), FALSE)
     ELSE /\ reqs' = [reqs EXCEPT ![r].pc = "storeGet"]
          /\ UNCHANGED hist
  /\ UNCHANGED <<pads, entries, now, clients, maxClients, rl, editor, chans, conns, nreq>>

\* GetPad: h.Store.GetPad(path)
ReadStoreGet(r) ==
  /\ reqs[r].pc = "storeGet"
  /\ reqs' = [reqs EXCEPT ![r].pc = "cacheSet",
                          ![r].pad = StoreGetPad(pads, reqs[r].path)]
  /\ UNCHANGED <<pads, entries, now, clients, maxClients, rl, editor, chans, conns, nreq, hist>>

\* GetPad: h.Cache.Set(path, pad), then the pad is returned.
ReadCacheSet(r) ==
  /\ reqs[r].pc = "cacheSet"
  /\ entries' = CacheSet(entries, reqs[r].path, reqs[r].pad, now)
  /\ Respond(r, 200, reqs[r].pad, FALSE)
  /\ UNCHANGED <<pads, now, clients, maxClients, rl, editor, chans, conns, nreq>>

\* The Store call returns an error before it changed anything: 500.
StoreFail(r) ==
  /\ reqs[r].pc \in {"store", "storeGet"}
  /\ Respond(r, 500, Nil, FALSE)
  /\ UNCHANGED <<pads, entries, now, clients, maxClients, rl, editor, chans, conns, nreq>>

\* SQLiteStore.SavePad: the upsert.
SaveStore(r) ==
  /\ reqs[r].pc = "store"
  /\ reqs[r].op = "write"
  /\ pads' = StoreUpsert(pads, reqs[r].path, reqs[r].content, now)
  /\ reqs' = [reqs EXCEPT ![r].pc = "reread", ![r].did = @ \cup {"store"}]
  /\ UNCHANGED <<entries, now, clients, maxClients, rl, editor, chans, conns, nreq, hist>>

\* SQLiteStore.SavePad: return s.GetPad(path), a second statement.
SaveReread(r) ==
  /\ reqs[r].pc = "reread"
  /\ reqs' = [reqs EXCEPT ![r].pc = AfterStore("write"),
                          ![r].pad = StoreGetPad(pads, reqs[r].path)]
  /\ UNCHANGED <<pads, entries, now, clients, maxClients, rl, editor, chans, conns, nreq, hist>>

\* SQLiteStore.SavePad: the GetPad after the upsert fails: 500, the row stays written.
SaveRereadFail(r) ==
  /\ reqs[r].pc = "reread"
  /\ Respond(r, 500, Nil, TRUE)
  /\ UNCHANGED <<pads, entries, now, clients, maxClients, rl, editor, chans, conns, nreq>>

\* SavePad: h.Cache.Invalidate(path)
SaveInvalidate(r) ==
  /\ reqs[r].pc = "invalidate"
  /\ entries' = CacheInvalidate(entries, reqs[r].path)
  /\ reqs' = [reqs EXCEPT ![r].pc = "set"]
  /\ UNCHANGED <<pads, now, clients, maxClients, rl, editor, chans, conns, nreq, hist>>

\* SavePad: h.Cache.Set(path, pad)
SaveSet(r) ==
  /\ reqs[r].pc = "set"
  /\ entries' = CacheSet(entries, reqs[r].path, reqs[r].pad, now)
  /\ reqs' = [reqs EXCEPT ![r].pc = AfterCache("write"), ![r].did = @ \cup {"cache"}]
  /\ UNCHANGED <<pads, now, clients, maxClients, rl, editor, chans, conns, nreq, hist>>

\* SQLiteStore.DeletePad: the DELETE and its RowsAffected.
DeleteStore(r) ==
  /\ reqs[r].pc = "store"
  /\ reqs[r].op = "delete"
  /\ pads' = StoreDelete(pads, reqs[r].path)
  /\ reqs' = [reqs EXCEPT ![r].pc = AfterStore("delete"),
                          ![r].count = Cardinality(DeleteMatches(pads, reqs[r].path)),
                          ![r].did = @ \cup {"store"}]
  /\ UNCHANGED <<entries, now, clients, maxClients, rl, editor, chans, conns, nreq, hist>>

\* DeletePad: h.Cache.InvalidatePrefix(path), for the root InvalidatePrefix("").
DeleteInvalidatePrefix(r) ==
  /\ reqs[r].pc = "invalidatePrefix"
  /\ entries' = CacheInvalidatePrefix(entries, reqs[r].path)
  /\ reqs' = [reqs EXCEPT ![r].pc = AfterCache("delete"), ![r].did = @ \cup {"cache"}]
  /\ UNCHANGED <<pads, now, clients, maxClients, rl, editor, chans, conns, nreq, hist>>

\* A coordinator that announces every mutation as an Update.
OwnEventAlwaysUpdate(rq) == UpdateEvent(rq.content, rq.actor)

\* The event a write or a delete announces on its own topic.
OwnEvent(rq) ==
  IF rq.op = "write" THEN UpdateEvent(rq.content, rq.actor)
  ELSE DeleteEvent(rq.path, rq.actor)

\* write and delete: publish Update / Delete on the pad's topic.
ReqPublish(r) ==
  /\ reqs[r].pc = "publish"
  /\ chans' = Broadcast(chans, clients, reqs[r].path, OwnEvent(reqs[r]))
  /\ reqs' = [reqs EXCEPT ![r].pc = "publishParent"]
  /\ UNCHANGED <<pads, entries, now, clients, maxClients, rl, editor, conns, nreq, hist>>

\* The body of the 200 answer: the saved pad, or {"deleted": count}.
OkBody(rq) == IF rq.op = "write" THEN rq.pad ELSE [deleted |-> rq.count]

\* write and delete: publish ChildrenChanged on the parent's topic, then answer 200.
ReqPublishParent(r) ==
  /\ reqs[r].pc = "publishParent"
  /\ chans' = Broadcast(chans, clients, ParentPath(reqs[r].path),
                        ChildrenChangedEvent(reqs[r].actor))
  /\ Respond(r, 200, OkBody(reqs[r]), TRUE)
  /\ UNCHANGED <<pads, entries, now, clients, maxClients, rl, editor, conns, nreq>>

\* The handler has returned; the goroutine is free for the next request.
ReqReturn(r) ==
  /\ reqs[r].pc = "done"
  /\ reqs' = [reqs EXCEPT ![r] = IdleReq]
  /\ UNCHANGED <<pads, entries, now, clients, maxClients, rl, editor, chans, conns, nreq, hist>>

\* Cache.cleanup: one tick of the sweep.
Sweep ==
  /\ entries' = CacheCleanup(entries, now)
  /\ entries' # entries
  /\ UNCHANGED <<pads, now, clients, maxClients, rl, editor, chans, conns, reqs, nreq, hist>>

\* A second passes.
Tick ==
  /\ now < MaxTime
  /\ now' = now + 1
  /\ UNCHANGED <<pads, entries, clients, maxClients, rl, editor, chans, conns, reqs, nreq, hist>>

\* --------------------------------------------------------- specifications

HandlerStep(r) ==
  \/ ReadCacheGet(r)
  \/ ReadStoreGet(r)
  \/ ReadCacheSet(r)
  \/ StoreFail(r)
  \/ SaveStore(r)
  \/ SaveReread(r)
  \/ SaveRereadFail(r)
  \/ SaveInvalidate(r)
  \/ SaveSet(r)
  \/ DeleteStore(r)
  \/ DeleteInvalidatePrefix(r)
  \/ ReqPublish(r)
  \/ ReqPublishParent(r)
  \/ ReqReturn(r)

\* A request for one of `paths` arrives at goroutine r.
Arrive(r, lim, max, paths) ==
  \/ \E path \in paths : ReqStart(r, lim, max, "read", path, "", "")
  \/ \E path \in paths, content \in Contents, actor \in Actors :
       ReqStart(r, lim, max, "write", path, content, actor)
  \/ \E path \in paths, actor \in Actors : ReqStart(r, lim, max, "delete", path, "", actor)

\* The server: handlers running concurrently on a pad, its parent and the root,
\* one SSE connection, the clock and the sweep.
ConcPaths == {Root, PathAB, PathABC, PathBad}
ConcTopics == {PathAB, PathABC}

Next ==
  \/ \E r \in Procs : Arrive(r, NumProcs, ConcRequests, ConcPaths)
  \/ \E r \in Procs : HandlerStep(r)
  \/ \E path \in ConcTopics : ConnSubscribe(1, path, "c2")
  \/ ConnRetry(1)
  \/ ConnReceive(1)
  \/ ConnCancel(1)
  \/ Sweep
  \/ Tick

Spec == Init /\ [][Next]_vars

\* The server handling one request at a time, with no SSE connection.
NextSeq ==
  \/ Arrive(1, 1, MaxRequests, ReqPaths)
  \/ HandlerStep(1)
  \/ Sweep
  \/ Tick

SpecSeq == Init /\ [][NextSeq]_vars

\* The broadcaster alone, its callers subscribing, cancelling and publishing at will.
BcastTopics == {PathA, PathAB}
BcastEvents == {UpdateEvent("x", "c1"), DeleteEvent(PathA, "c2")}

NextBcast ==
  \/ \E k \in Conns : \E path \in BcastTopics, clientID \in ClientIDs :
       ConnSubscribe(k, path, clientID)
  \/ \E k \in Conns : ConnRetry(k)
  \/ \E k \in Conns : ConnReceive(k)
  \/ \E k \in Conns : ConnCancel(k)
  \/ \E path \in BcastTopics, event \in BcastEvents : Publish(path, event)

SpecBcast == Init /\ [][NextBcast]_vars

\* ------------------------------------------------------------------ claims

\* Goroutine r takes its step out of program point `pc`.
Leaves(r, pc) == reqs[r].pc = pc /\ reqs'[r].pc # pc

C2_LastWriteWins ==
  \A r \in Procs :
    (/\ reqs[r].pc = "done"
     /\ reqs[r].op = "read"
     /\ reqs[r].status = 200
     /\ hist[reqs[r].path].kind = "write")
      => reqs[r].body.Content = hist[reqs[r].path].content

\* C3: requests handled one after the other: after a completed delete(p), the root
\* included, a read of p or of a strict descendant of p (not written since) returns
\* the implicit empty pad, whether or not the path was cached before the delete.
C3_ReadAfterDelete ==
  \A r \in Procs :
    (/\ reqs[r].pc = "done"
     /\ reqs[r].op = "read"
     /\ reqs[r].status = 200
     /\ hist[reqs[r].path].kind = "delete")
      => /\ reqs[r].body.Content = ""
         /\ reqs[r].body.UpdatedAt = 0

\* C4: the Store step of delete(p) removes exactly the rows whose path is p or starts
\* with p + "/" (every row for the root) and leaves every other row as it was.
C4_DeleteExactly ==
  [][\A r \in Procs :
       (Leaves(r, "store") /\ reqs[r].op = "delete" /\ reqs'[r].pc # "done")
         => pads' = [q \in {x \in DOMAIN pads : ~SelfOrDescendant(x, reqs[r].path)}
                       |-> pads[q]]]_vars

\* The step is a Broadcast that changed some queue: nothing but queues changed, and
\* the change is not one event taken off the head of a queue.
IsReceive ==
  \E k \in Conns : chans[k].buf # <<>> /\ chans' = [chans EXCEPT ![k].buf = Tail(@)]
BroadcastChanged ==
  /\ conns' = conns
  /\ clients' = clients
  /\ chans' # chans
  /\ ~IsReceive

\* The event a queue-growing step appended.
Appended ==
  LET k == CHOOSE j \in Conns : Len(chans'[j].buf) > Len(chans[j].buf)
  IN chans'[k].buf[Len(chans'[k].buf)]

\* C5: a Broadcast leaves every full queue of the topic exactly as it was (only the
\* new event is lost, and only for that subscriber), and in the same step appends
\* the event to every other registered queue of the topic that has room.
C5_DropOnlyForFull ==
  [][BroadcastChanged =>
       /\ \E j \in Conns : Len(chans'[j].buf) > Len(chans[j].buf)
       /\ \E path \in Paths :
            \A k \in Conns :
              chans'[k] =
                IF k \in Registered(clients, path) /\ Len(chans[k].buf) < ChanCap
                THEN [chans[k] EXCEPT !.buf = Append(@, Appended)]
                ELSE chans[k]]_vars

\* C5 witness: two subscribers of one topic, one queue full of Updates, the other
\* holding just the Delete that was published while the first was full.
C5_Witness ==
  \E k1, k2 \in Conns :
    /\ k1 # k2
    /\ conns[k1].pc = "serving" /\ conns[k2].pc = "serving"
    /\ conns[k1].path = conns[k2].path
    /\ {k1, k2} \subseteq Registered(clients, conns[k1].path)
    /\ Len(chans[k1].buf) = ChanCap
    /\ \A i \in 1..ChanCap : chans[k1].buf[i] = UpdateEvent("x", "c1")
    /\ chans[k2].buf = <<DeleteEvent(PathA, "c2")>>

\* Connection k makes its Subscribe call in this step.
Subscribes(k) == conns[k].pc = "idle" /\ conns'[k].pc # "idle"

\* Connection k runs its cleanup in this step.
Cancels(k) == conns[k].pc = "serving" /\ conns'[k].pc = "idle"

\* C6: a Subscribe of a client ID not yet registered under the topic is refused if and
\* only if the topic already holds maxClients subscribers; when it is let in, the
\* subscriber is registered with a fresh empty queue. A cancel of a registered
\* subscriber lowers the topic's count by one, so the refused Subscribe then succeeds.
C6_CapacityExceeded ==
  [][/\ \A k \in Conns :
          (Subscribes(k) /\ conns'[k].clientID \notin
                              DOMAIN WithTopic(clients, conns'[k].path)[conns'[k].path])
            => /\ (conns'[k].pc = "refused")
                    <=> (ClientCount(clients, conns'[k].path) >= maxClients)
               /\ conns'[k].pc = "serving"
                    => /\ clients'[conns'[k].path][conns'[k].clientID] = k
                       /\ ClientCount(clients', conns'[k].path)
                            = ClientCount(clients, conns'[k].path) + 1
                       /\ chans'[k] = [buf |-> <<>>, state |-> "open"]
     /\ \A k \in Conns :
          (Cancels(k) /\ k \in Registered(clients, conns[k].path))
            => ClientCount(clients', conns[k].path)
                 = ClientCount(clients, conns[k].path) - 1]_vars

\* C6 witness: with maxClients = 2, a third client stands refused while the topic
\* holds two subscribers.
C6_Witness ==
  \E k \in Conns :
    /\ conns[k].pc = "refused"
    /\ maxClients = 2
    /\ ClientCount(clients, conns[k].path) = 2
    /\ conns[k].clientID \notin DOMAIN clients[conns[k].path]

\* C7: the cancel after which no connection is serving a topic any more leaves the
\* topic without a map entry and with a subscriber count of 0.
C7_TopicRemoved ==
  [][\A k \in Conns :
       (Cancels(k) /\ \A j \in Conns \ {k} :
                        ~(conns[j].pc = "serving" /\ conns[j].path = conns[k].path))
         => /\ conns[k].path \notin DOMAIN clients'
            /\ ClientCount(clients', conns[k].path) = 0]_vars

\* C7 witness: two subscribers came and went (both queues closed), nobody is
\* serving, and the topic map is empty again.
C7_Witness ==
  /\ \E k1, k2 \in Conns : k1 # k2 /\ chans[k1].state = "closed" /\ chans[k2].state = "closed"
  /\ \A k \in Conns : conns[k].pc # "serving"
  /\ clients = EmptyMap
  /\ maxClients >= 1

\* C8: InvalidatePrefix with a non-empty prefix removes exactly the entries whose path
\* is the prefix or starts with prefix + "/", and leaves every other entry (such as
\* "ab" for prefix "a") with its pad and expiry unchanged.
C8_InvalidatePrefixExact ==
  [][\A r \in Procs :
       (Leaves(r, "invalidatePrefix") /\ reqs[r].path # Root)
         => entries' =
              [q \in {x \in DOMAIN entries :
                        ~(x = reqs[r].path
                          \/ (Len(x) > Len(reqs[r].path)
                              /\ SubSeq(x, 1, Len(reqs[r].path) + 1)
                                   = reqs[r].path \o <<"/">>))}
                 |-> entries[q]]]_vars

\* C8 witness: delete("a") has just invalidated: the entry of "a" cached by its write
\* in this same second is gone, the entry of "ab" is still there.
C8_Witness ==
  \E r \in Procs :
    /\ reqs[r].op = "delete"
    /\ reqs[r].path = PathA
    /\ reqs[r].pc = "publish"
    /\ now = 1
    /\ hist[PathA].kind = "write"
    /\ PathA \notin DOMAIN entries
    /\ PathAB \in DOMAIN entries

\* C9: InvalidatePrefix with the empty prefix leaves the cache empty.
C9_EmptyPrefixClearsAll ==
  [][\A r \in Procs :
       (Leaves(r, "invalidatePrefix") /\ reqs[r].path = Root)
         => entries' = EmptyMap]_vars

\* C10: delete(p) returns the number of rows that are p or a strict descendant of p
\* (every row for the root), which is the number of rows it removed; a delete(p)
\* that follows a completed delete(p), with no write of p or of a descendant of p
\* since, returns 0.
C10_DeleteCount ==
  [][\A r \in Procs :
       (Leaves(r, "store") /\ reqs[r].op = "delete" /\ reqs'[r].pc # "done")
         => /\ reqs'[r].count
                 = Cardinality({x \in DOMAIN pads : SelfOrDescendant(x, reqs[r].path)})
            /\ reqs'[r].count = Cardinality(DOMAIN pads) - Cardinality(DOMAIN pads')
            /\ (/\ hist[reqs[r].path].kind = "delete"
                /\ \A q \in Paths : SelfOrDescendant(q, reqs[r].path)
                                      => hist[q].kind \in {"none", "delete"})
                 => reqs'[r].count = 0]_vars

\* C11: requests handled one after the other: a read of a valid path that was never
\* written, or was deleted and not written since, is answered with the implicit pad
\* (content "", updated_at 0, created_at 0), and no step of a read changes the table.
C11_ImplicitRead ==
  /\ [](\A r \in Procs :
          (/\ reqs[r].pc = "done"
           /\ reqs[r].op = "read"
           /\ reqs[r].status = 200
           /\ hist[reqs[r].path].kind \in {"none", "delete"})
            => /\ reqs[r].body.Content = ""
               /\ reqs[r].body.UpdatedAt = 0
               /\ reqs[r].body.CreatedAt = 0)
  /\ [][\A r \in Procs :
          (reqs[r].op = "read" /\ reqs'[r] # reqs[r]) => pads' = pads]_vars

\* ------------------------------------------------------------ child listing

\* Requests started in one behaviour of the listing server.
ListRequests == 4

\* The characters of a path in byte order: SQLite compares TEXT with memcmp
\* (collation BINARY), so '-' < '/' < digits < '_' < letters.
ByteOrder ==
  <<"-", ".", "/", "0", "1", "2", "3", "4", "5", "6", "7", "8", "9", "_",
    "a", "b", "c", "d", "e", "f", "g", "h", "i", "j", "k", "l", "m", "n", "o", "p", "q",
    "r", "s", "t", "u", "v", "w", "x", "y", "z">>

\* The rank of character c in byte order.
Ord(c) == CHOOSE i \in 1..Len(ByteOrder) : ByteOrder[i] = c

\* s sorts strictly before t under ORDER BY path ASC.
RECURSIVE ByteLess(_, _)
ByteLess(s, t) ==
  IF t = <<>> THEN FALSE
  ELSE IF s = <<>> THEN TRUE
  ELSE IF Head(s) # Head(t) THEN Ord(Head(s)) < Ord(Head(t))
  ELSE ByteLess(Tail(s), Tail(t))

\* The paths of S in ascending order.
RECURSIVE SortByPath(_)
SortByPath(S) ==
  IF S = {} THEN <<>>
  ELSE LET m == CHOOSE x \in S : \A y \in S : x = y \/ ByteLess(x, y)
       IN <<m>> \o SortByPath(S \ {m})

\* A WHERE clause that forgets the row of the listed path itself.
ChildRowNoSelfTest(rows, q, parentPath) == rows[q].parent_path = parentPath

\* GetChildren's WHERE clause: parent_path = ? AND path != ?
ChildRow(rows, q, parentPath) == rows[q].parent_path = parentPath /\ q # parentPath

\* SQLiteStore.GetChildren: the (path, updated_at) of the matching rows, ordered by path.
StoreGetChildren(rows, parentPath) ==
  LET sorted == SortByPath({q \in DOMAIN rows : ChildRow(rows, q, parentPath)})
  IN [i \in 1..Len(sorted) |-> [Path |-> sorted[i], UpdatedAt |-> rows[sorted[i]].updated_at]]

\* Handler.GetChildren: h.Store.GetChildren(path), answered 200 with the list.
ChildrenStoreGet(r) ==
  /\ reqs[r].pc = "store"
  /\ reqs[r].op = "children"
  /\ Respond(r, 200, [children |-> StoreGetChildren(pads, reqs[r].path)], FALSE)
  /\ UNCHANGED <<pads, entries, now, clients, maxClients, rl, editor, chans, conns, nreq>>

\* The server handling one write, delete or child listing at a time.
NextList ==
  \/ \E path \in Paths : ReqStart(1, 1, ListRequests, "write", path, "x", "c1")
  \/ \E path \in Paths : ReqStart(1, 1, ListRequests, "delete", path, "", "c1")
  \/ \E path \in Paths : ReqStart(1, 1, ListRequests, "children", path, "", "")
  \/ ChildrenStoreGet(1)
  \/ StoreFail(1)
  \/ SaveStore(1)
  \/ SaveReread(1)
  \/ SaveInvalidate(1)
  \/ SaveSet(1)
  \/ DeleteStore(1)
  \/ DeleteInvalidatePrefix(1)
  \/ ReqPublish(1)
  \/ ReqPublishParent(1)
  \/ ReqReturn(1)

SpecList == Init /\ [][NextList]_vars

\* C12: a child listing of p answered 200 holds exactly the rows whose parent, derived
\* from their path, is p, without p itself (the root's parent is the root), so no
\* grandchild or deeper descendant, each once, in strictly ascending byte order of
\* path, each with its row's updated_at.
C12_ListChildren ==
  \A r \in Procs :
    (reqs[r].pc = "done" /\ reqs[r].op = "children" /\ reqs[r].status = 200)
      => LET ch == reqs[r].body.children
             p == reqs[r].path
         IN /\ {ch[i].Path : i \in 1..Len(ch)}
                 = {q \in DOMAIN pads : ParentPath(q) = p /\ q # p}
            /\ \A i \in 1..Len(ch) : ch[i].UpdatedAt = pads[ch[i].Path].updated_at
            /\ \A i \in 1..(Len(ch) - 1) : ByteLess(ch[i].Path, ch[i + 1].Path)

\* C12 witness: the root itself, "ab" and "a_" are materialized; the listing of the
\* root answers "a_" before "ab" and leaves the root out.
C12_Witness ==
  /\ reqs[1].pc = "done"
  /\ reqs[1].op = "children"
  /\ reqs[1].status = 200
  /\ reqs[1].path = Root
  /\ Root \in DOMAIN pads
  /\ Len(reqs[1].body.children) = 2
  /\ reqs[1].body.children[1].Path = PathAU
  /\ reqs[1].body.children[2].Path = PathAB

\* ------------------------------------------- callers of Subscribe's cleanup

\* close(ch): a channel is closed once; closing a closed channel panics. Events still
\* buffered stay readable.
CloseChan(ch) ==
  IF ch.state = "open" THEN [ch EXCEPT !.state = "closed"]
  ELSE [ch EXCEPT !.state = "panic"]

\* A caller of Subscribe invokes the cleanup function it was given and keeps it.
CancelCall(k) ==
  /\ conns[k].pc = "serving"
  /\ clients' = CleanupClients(clients, conns[k].path, conns[k].clientID)
  /\ chans' = [chans EXCEPT ![k] = CloseChan(chans[k])]
  /\ conns' = [conns EXCEPT ![k].pc = "cancelled"]
  /\ UNCHANGED <<pads, entries, now, maxClients, rl, editor, reqs, nreq, hist>>

\* The same cleanup function is invoked once more: the closure runs again on the path,
\* client ID and channel it captured.
CancelAgain(k) ==
  /\ conns[k].pc = "cancelled"
  /\ clients' = CleanupClients(clients, conns[k].path, conns[k].clientID)
  /\ chans' = [chans EXCEPT ![k] = CloseChan(chans[k])]
  /\ conns' = [conns EXCEPT ![k] = IdleConn]
  /\ UNCHANGED <<pads, entries, now, maxClients, rl, editor, reqs, nreq, hist>>

\* The caller lets go of the cleanup function.
CancelDrop(k) ==
  /\ conns[k].pc = "cancelled"
  /\ conns' = [conns EXCEPT ![k] = IdleConn]
  /\ UNCHANGED <<pads, entries, now, clients, maxClients, rl, editor, chans, reqs, nreq, hist>>

\* The broadcaster used through Subscribe, the cleanup it returns and Broadcast, by
\* two callers on one topic.
CancelCallers == {1, 2}

NextCancel ==
  \/ \E k \in CancelCallers : \E clientID \in {"c1", "c2"} :
       ConnSubscribe(k, PathA, clientID)
  \/ \E k \in CancelCallers : ConnRetry(k)
  \/ \E k \in CancelCallers : CancelCall(k)
  \/ \E k \in CancelCallers : CancelAgain(k)
  \/ \E k \in CancelCallers : CancelDrop(k)
  \/ Publish(PathA, UpdateEvent("x", "c1"))

SpecCancel == Init /\ [][NextCancel]_vars

\* C13: the queue of a subscription changes from open to closed once and in no other
\* way (a further invocation of cancel does not close it again), and every return of
\* a cancel leaves it closed.
C13_ClosedExactlyOnce ==
  [][\A k \in Conns :
       /\ chans'[k].state # chans[k].state
            => \/ chans'[k].state = "open"
               \/ chans[k].state = "open" /\ chans'[k].state = "closed"
       /\ (conns[k].pc \in {"serving", "cancelled"} /\ conns'[k].pc # conns[k].pc)
            => chans'[k].state = "closed"]_vars

\* ------------------------------------------------------- the serving loop

\* A loop that would go on selecting after ServeHTTP has returned.
LoopRunningAfterReturn(c) == TRUE

\* ServeHTTP is inside its for/select loop.
LoopRunning(c) == c.pc = "serving"

\* keepaliveTicker fires: a tick waits on the ticker's channel, which holds one.
KeepaliveTick(k) ==
  /\ LoopRunning(conns[k])
  /\ ~conns[k].tick
  /\ conns' = [conns EXCEPT ![k].tick = TRUE, ![k].busy = conns[k].evt,
                            ![k].evt = FALSE]
  /\ UNCHANGED <<pads, entries, now, clients, maxClients, rl, editor, chans, reqs, nreq, hist>>

\* The loop's case <-keepaliveTicker.C: ":keepalive" is written to the client.
ConnKeepalive(k) ==
  /\ LoopRunning(conns[k])
  /\ conns[k].tick
  /\ conns' = [conns EXCEPT ![k].tick = FALSE]
  /\ UNCHANGED <<pads, entries, now, clients, maxClients, rl, editor, chans, reqs, nreq, hist>>

ServeConns == {1, 2}

\* Two SSE connections on one topic, their keepalive tickers and a publisher.
NextServe ==
  \/ \E k \in ServeConns : \E clientID \in {"c1", "c2"} : ConnSubscribe(k, PathA, clientID)
  \/ \E k \in ServeConns : ConnRetry(k)
  \/ \E k \in ServeConns : ConnReceive(k)
  \/ \E k \in ServeConns : KeepaliveTick(k)
  \/ \E k \in ServeConns : ConnKeepalive(k)
  \/ \E k \in ServeConns : ConnCancel(k)
  \/ \E event \in BcastEvents : Publish(PathA, event)

SpecServe == Init /\ [][NextServe]_vars

\* Connection k writes an event to its client in this step: the head of its queue is
\* taken off.
WritesEvent(k) ==
  /\ chans[k].buf # <<>>
  /\ chans'[k] = [chans[k] EXCEPT !.buf = Tail(@)]

\* Connection k writes a keepalive to its client in this step: its tick is consumed.
WritesKeepalive(k) ==
  conns[k].tick /\ ~conns'[k].tick /\ conns'[k].pc = conns[k].pc

\* C14: a step of the serving loop handles one source: it writes one event, or one
\* keepalive, or it observes the cancellation and writes nothing. Writes happen only
\* inside the loop. Observing the cancellation ends the loop for good: the ticker is
\* stopped, the queue is closed, and as long as the connection is not serving nothing
\* is queued or ticking for it and nothing is written to it.
C14_ServeLoop ==
  [][\A k \in Conns :
       /\ ~(WritesEvent(k) /\ WritesKeepalive(k))
       /\ (WritesEvent(k) \/ WritesKeepalive(k))
            => /\ conns[k].pc = "serving" /\ conns'[k].pc = "serving"
               /\ chans[k].state = "open"
       /\ Cancels(k)
            => /\ ~WritesEvent(k) /\ ~WritesKeepalive(k)
               /\ ~conns'[k].tick
               /\ chans'[k].state = "closed"
       /\ (conns[k].pc # "serving" /\ conns'[k].pc # "serving")
            => /\ chans'[k] = chans[k]
               /\ chans[k].buf = <<>>
               /\ ~conns[k].tick /\ ~conns'[k].tick]_vars

\* C14 witness: one connection has observed its cancellation and stopped (queue closed),
\* while the other is in its loop with an event queued and a keepalive tick waiting.
C14_Witness ==
  \E k, j \in Conns :
    /\ k # j
    /\ conns[k].pc = "idle"
    /\ chans[k].state = "closed"
    /\ conns[j].pc = "serving"
    /\ conns[j].tick
    /\ chans[j].buf # <<>>

\* --------------------------------------------------- what a request publishes

\* The queues after `event` was offered to every subscriber of `topic`: appended
\* where there is room, dropped where there is none.
Offered(topic, event) ==
  [k \in Conns |->
     IF k \in Registered(clients, topic) /\ Len(chans[k].buf) < ChanCap
     THEN [chans[k] EXCEPT !.buf = Append(@, event)]
     ELSE chans[k]]

C16_DeleteReachesDescendants ==
  [][\A r \in Procs :
       /\ (Leaves(r, "invalidatePrefix") /\ reqs[r].op = "delete")
            => \A q \in DOMAIN entries' : ~SelfOrDescendant(q, reqs[r].path)
       /\ (Leaves(r, "publish") /\ reqs[r].op = "delete")
            => \A k \in Conns :
                 (/\ conns[k].pc = "serving"
                  /\ k \in Registered(clients, conns[k].path)
                  /\ SelfOrDescendant(conns[k].path, reqs[r].path)
                  /\ Len(chans[k].buf) < ChanCap)
                   => chans'[k].buf # chans[k].buf]_vars

\* ------------------------------------------- a slow subscriber of the root

\* The server handling one request at a time for the root and "a", with one SSE
\* connection on the root topic (a write of the root publishes there twice).
NextDrop ==
  \/ Arrive(1, 1, MaxRequests, {Root, PathA})
  \/ HandlerStep(1)
  \/ ConnSubscribe(1, Root, "c2")
  \/ ConnRetry(1)
  \/ ConnReceive(1)
  \/ ConnCancel(1)

SpecDrop == Init /\ [][NextDrop]_vars

C18_PublishWithoutSubscribers ==
  /\ [](\A path \in Paths : \A event \in BcastEvents :
          ClientCount(clients, path) = 0
            => Broadcast(chans, clients, path, event) = chans)
  /\ [][clients' # clients => \E k \in Conns : Subscribes(k) \/ Cancels(k)]_vars

\* C18 witness: topic "a" has no entry while a subscriber of "ab" holds one event and
\* has room for more.
C18_Witness ==
  /\ PathA \notin DOMAIN clients
  /\ \E k \in Conns :
       /\ conns[k].pc = "serving"
       /\ conns[k].path = PathAB
       /\ k \in Registered(clients, PathAB)
       /\ Len(chans[k].buf) = 1

\* ------------------------------------------------------- the cache alone

\* The TTL of the cache under test and the last second of its clock.
LongTTL == 1
CacheMaxTime == 3

\* The paths and snapshots the caller passes to the cache.
CachePaths == {PathA, PathAB}
CachePads(path) == {[ImplicitPad(path) EXCEPT !.Content = c] : c \in Contents}

\* A caller enters Get, Set or Invalidate and waits for the lock.
CacheCall(op, path, pad) ==
  /\ reqs[1].pc = "idle"
  /\ reqs' = [reqs EXCEPT ![1] =
                [IdleReq EXCEPT !.pc = "cache", !.op = op, !.path = path, !.pad = pad]]
  /\ UNCHANGED <<pads, entries, now, clients, maxClients, rl, editor, chans, conns, nreq, hist>>

\* Cache.Get under the read lock; the returned pointer is kept in body.
CacheRunGet ==
  /\ reqs[1].pc = "cache"
  /\ reqs[1].op = "get"
  /\ reqs' = [reqs EXCEPT ![1].pc = "done",
                          ![1].body = CacheGet(entries, reqs[1].path, now)]
  /\ UNCHANGED <<pads, entries, now, clients, maxClients, rl, editor, chans, conns, nreq, hist>>

\* Cache.Set under the write lock.
CacheRunSet ==
  /\ reqs[1].pc = "cache"
  /\ reqs[1].op = "set"
  /\ entries' = CacheSetTTL(entries, reqs[1].path, reqs[1].pad, now, LongTTL)
  /\ reqs' = [reqs EXCEPT ![1].pc = "done"]
  /\ UNCHANGED <<pads, now, clients, maxClients, rl, editor, chans, conns, nreq, hist>>

\* Cache.Invalidate under the write lock.
CacheRunInvalidate ==
  /\ reqs[1].pc = "cache"
  /\ reqs[1].op = "invalidate"
  /\ entries' = CacheInvalidate(entries, reqs[1].path)
  /\ reqs' = [reqs EXCEPT ![1].pc = "done"]
  /\ UNCHANGED <<pads, now, clients, maxClients, rl, editor, chans, conns, nreq, hist>>

\* A second passes on the clock the cache reads.
CacheTick ==
  /\ now < CacheMaxTime
  /\ now' = now + 1
  /\ UNCHANGED <<pads, entries, clients, maxClients, rl, editor, chans, conns, reqs, nreq, hist>>

NextCache ==
  \/ \E path \in CachePaths : CacheCall("get", path, Nil)
  \/ \E path \in CachePaths : \E pad \in CachePads(path) : CacheCall("set", path, pad)
  \/ \E path \in CachePaths : CacheCall("invalidate", path, Nil)
  \/ CacheRunGet
  \/ CacheRunSet
  \/ CacheRunInvalidate
  \/ ReqReturn(1)
  \/ Sweep
  \/ CacheTick

SpecCache == Init /\ [][NextCache]_vars

\* C19: a Set of (p, pad) run at time t leaves entry p as exactly (pad, t + TTL),
\* replacing whatever was there, and leaves every other entry alone; a Get of p returns
\* the stored snapshot when an entry for p is present and the clock has not passed its
\* expiry, and Nil otherwise, also for an expired entry that is still in the map; a Get
\* changes no entry.
C19_CacheTTL ==
  [][(reqs[1].pc = "cache" /\ reqs'[1].pc = "done") =>
       LET p == reqs[1].path IN
       /\ reqs[1].op = "set" =>
            /\ DOMAIN entries' = DOMAIN entries \cup {p}
            /\ entries'[p] = [Pad |-> reqs[1].pad, ExpiresAt |-> now + LongTTL]
            /\ \A q \in DOMAIN entries \ {p} : entries'[q] = entries[q]
       /\ reqs[1].op = "get" =>
            /\ entries' = entries
            /\ IF p \in DOMAIN entries /\ now <= entries[p].ExpiresAt
               THEN reqs'[1].body = entries[p].Pad
               ELSE reqs'[1].body = Nil]_vars

\* C19 witness: a Get has returned Nil for a path whose expired entry is still in the
\* map.
C19_Witness ==
  /\ reqs[1].pc = "done"
  /\ reqs[1].op = "get"
  /\ reqs[1].body = Nil
  /\ reqs[1].path \in DOMAIN entries
  /\ now > entries[reqs[1].path].ExpiresAt

\* C34: a pass of the sweep at time t removes exactly the entries whose expiry lies
\* before t: every entry with t <= ExpiresAt stays as it was, and no entry that had
\* expired when the pass started is left.
C34_SweepRemovesExpired ==
  [][(entries' # entries /\ reqs' = reqs) =>
       /\ DOMAIN entries' = {p \in DOMAIN entries : now <= entries[p].ExpiresAt}
       /\ \A q \in DOMAIN entries' : entries'[q] = entries[q]
       /\ \A q \in DOMAIN entries : now > entries[q].ExpiresAt => q \notin DOMAIN entries']_vars

\* C34 witness: a Get returned the snapshot of "ab", no call has run since, and the entry
\* is gone while the entry of "a", at the instant of its expiry, is still there.
C34_Witness ==
  /\ reqs[1].pc = "done"
  /\ reqs[1].op = "get"
  /\ reqs[1].path = PathAB
  /\ reqs[1].body # Nil
  /\ PathAB \notin DOMAIN entries
  /\ PathA \in DOMAIN entries
  /\ entries[PathA].ExpiresAt = now

\* ---------------------------------------------------------- the editor

\* The keystrokes of one editing session and the texts they can leave in the textarea.
MaxKeystrokes == 3
EditorContents == {"", "x", "y"}

\* doSave(): nothing while a save is in flight, nothing when the content is the last
\* saved one; else isSaving is set and savePad(path, content, clientId) is sent.
DoSave(ed) ==
  IF ed.isSaving THEN ed
  ELSE IF ed.content = ed.lastSavedContent THEN ed
  ELSE [ed EXCEPT !.isSaving = TRUE, !.inflight = ed.content, !.sent = ed.content]

\* A keystroke: the bound content changes and handleInput restarts the 500 ms timer.
HandleInput(c) ==
  /\ ~editor.stopped
  /\ editor.typed < MaxKeystrokes
  /\ c # editor.content
  /\ editor' = [editor EXCEPT !.content = c, !.saveTimeout = TRUE,
                              !.typed = editor.typed + 1]
  /\ UNCHANGED <<pads, entries, now, clients, maxClients, rl, chans, conns, reqs, nreq, hist>>

\* The user stops typing.
StopTyping ==
  /\ ~editor.stopped
  /\ editor.typed > 0
  /\ editor' = [editor EXCEPT !.stopped = TRUE]
  /\ UNCHANGED <<pads, entries, now, clients, maxClients, rl, chans, conns, reqs, nreq, hist>>

\* The timer fires: saveTimeout = null; doSave().
SaveTimeoutFires ==
  /\ editor.saveTimeout
  /\ editor' = DoSave([editor EXCEPT !.saveTimeout = FALSE])
  /\ UNCHANGED <<pads, entries, now, clients, maxClients, rl, chans, conns, reqs, nreq, hist>>

\* savePad resolves: lastSavedContent = data.content; finally isSaving = false.
SavePadResolves ==
  /\ editor.isSaving
  /\ editor' = [editor EXCEPT !.lastSavedContent = editor.inflight, !.isSaving = FALSE,
                              !.inflight = NoSave]
  /\ UNCHANGED <<pads, entries, now, clients, maxClients, rl, chans, conns, reqs, nreq, hist>>

\* savePad rejects: the catch branch; finally isSaving = false.
SavePadRejects ==
  /\ editor.isSaving
  /\ editor' = [editor EXCEPT !.isSaving = FALSE, !.inflight = NoSave]
  /\ UNCHANGED <<pads, entries, now, clients, maxClients, rl, chans, conns, reqs, nreq, hist>>

NextEditor ==
  \/ \E c \in EditorContents : HandleInput(c)
  \/ StopTyping
  \/ SaveTimeoutFires
  \/ SavePadResolves
  \/ SavePadRejects

\* A timer that is set fires, and a request that was sent settles.
SpecEditor ==
  /\ Init
  /\ [][NextEditor]_vars
  /\ WF_vars(SaveTimeoutFires)
  /\ WF_vars(SavePadResolves \/ SavePadRejects)

\* C20: once the user has stopped typing, with no further keystroke, eventually the
\* last save request sent carries the content of the textarea, or no save is in flight
\* and the textarea holds what the server last returned (nothing is left to send).
C20_AutoSaveLiveness ==
  editor.stopped ~>
    \/ editor.sent = editor.content
    \/ ~editor.isSaving /\ editor.content = editor.lastSavedContent

\* -------------------------------------------------- topics and subscribers

\* C21: every topic that has an entry in the topic map has at least one registered
\* subscriber, in every reachable state and for every maxClients, 0 included.
C21_NoEmptyTopic ==
  \A path \in DOMAIN clients : DOMAIN clients[path] # {}

\* ----------------------------------------- Broadcast under the read lock

\* A test of b.mu that lets a writer in while readers hold it.
WriteLockFreeIgnored(rs) == TRUE

\* b.mu.Lock() can be taken: no goroutine is inside Broadcast holding b.mu.RLock().
\* (Subscribe and cleanup hold the write lock for their whole body, one step here.)
WriteLockFree(rs) == \A r \in DOMAIN rs : rs[r].pc # "bcast"

\* The goroutines calling Broadcast, the connections and the topics of this
\* specification.
LockProcs == {1, 2}
LockConns == {1, 2}
LockTopics == {PathA, PathAB}

\* Broadcast takes the read lock and looks the topic up; body keeps the event and the
\* channels of the map it is about to range over, did the channels already visited.
BroadcastRLock(r, path, event) ==
  /\ reqs[r].pc = "idle"
  /\ reqs' = [reqs EXCEPT ![r] =
                [IdleReq EXCEPT !.pc = "bcast", !.op = "broadcast", !.path = path,
                                !.body = [event |-> event,
                                          range |-> Registered(clients, path)]]]
  /\ UNCHANGED <<pads, entries, now, clients, maxClients, rl, editor, chans, conns, nreq, hist>>

\* A plain ch <- event, which waits for room in the queue.
SendProceedsWhenRoom(ch) == Len(ch.buf) < ChanCap

\* The select of Broadcast has a default case: it never waits, whatever the queue holds.
SendProceeds(ch) == TRUE

\* One iteration of the range: select { case ch <- event: default: }.
BroadcastSend(r, k) ==
  /\ reqs[r].pc = "bcast"
  /\ k \in reqs[r].body.range \ reqs[r].did
  /\ SendProceeds(chans[k])
  /\ chans' = [chans EXCEPT ![k] = SelectSend(chans[k], reqs[r].body.event)]
  /\ reqs' = [reqs EXCEPT ![r].did = reqs[r].did \cup {k}]
  /\ UNCHANGED <<pads, entries, now, clients, maxClients, rl, editor, conns, nreq, hist>>

\* The range is over: Broadcast returns and the deferred RUnlock runs.
BroadcastRUnlock(r) ==
  /\ reqs[r].pc = "bcast"
  /\ reqs[r].body.range \subseteq reqs[r].did
  /\ reqs' = [reqs EXCEPT ![r] = IdleReq]
  /\ UNCHANGED <<pads, entries, now, clients, maxClients, rl, editor, chans, conns, nreq, hist>>

\* Subscribe and the cleanup closure wait for the write lock.
LockedSubscribe(k, path, clientID) ==
  /\ WriteLockFree(reqs)
  /\ ConnSubscribe(k, path, clientID)

LockedCancel(k) ==
  /\ WriteLockFree(reqs)
  /\ ConnCancel(k)

NextLock ==
  \/ \E k \in LockConns : \E path \in LockTopics, clientID \in {"c1", "c2"} :
       LockedSubscribe(k, path, clientID)
  \/ \E k \in LockConns : ConnRetry(k)
  \/ \E k \in LockConns : ConnReceive(k)
  \/ \E k \in LockConns : LockedCancel(k)
  \/ \E r \in LockProcs : \E path \in LockTopics :
       BroadcastRLock(r, path, UpdateEvent("x", "c1"))
  \/ \E r \in LockProcs : \E k \in LockConns : BroadcastSend(r, k)
  \/ \E r \in LockProcs : BroadcastRUnlock(r)

SpecLock == Init /\ [][NextLock]_vars

\* C22: every queue a Broadcast still has to visit is open, so no send is attempted on
\* a closed queue; and a queue grows only while it is open and registered under the
\* topic being published, never after its subscription was cancelled.
C22_NoSendAfterCancel ==
  /\ [](\A r \in LockProcs :
          reqs[r].pc = "bcast"
            => \A k \in reqs[r].body.range \ reqs[r].did : chans[k].state = "open")
  /\ [][\A k \in Conns :
          Len(chans'[k].buf) > Len(chans[k].buf)
            => /\ chans[k].state = "open"
               /\ conns[k].pc = "serving"
               /\ \E r \in LockProcs : k \in Registered(clients, reqs[r].path)]_vars

\* C22 witness: one subscription was cancelled and its queue closed, and a Broadcast
\* on a topic that still has a subscriber has sent its event and not yet returned.
C22_Witness ==
  \E r \in LockProcs : \E k1, k2 \in LockConns :
    /\ chans[k1].state = "closed"
    /\ conns[k1].pc = "idle"
    /\ reqs[r].pc = "bcast"
    /\ k2 \in reqs[r].did
    /\ chans[k2].state = "open"
    /\ Len(chans[k2].buf) >= 1

\* C23: the cancel of one subscription removes only that subscription: every other
\* connection that is serving and registered under its topic, a later one with the same
\* client ID included, is still registered after the step (and so keeps receiving what
\* is published to the topic).
C23_CancelRemovesOnlyOwn ==
  [][\A k \in Conns :
       Cancels(k) =>
         \A j \in Conns \ {k} :
           (conns[j].pc = "serving" /\ j \in Registered(clients, conns[j].path))
             => j \in Registered(clients', conns[j].path)]_vars

\* ------------------------------------------------- cache against the store

\* No handler is between its first and its last statement.
Quiescent == \A r \in Procs : reqs[r].pc \in {"idle", "done"}

\* C24: once every read, write and delete has completed, each cache entry that has not
\* expired holds the pad the Store returns for its path, so a read answered from the
\* cache answers what the Store would.
C24_CacheMatchesStore ==
  Quiescent =>
    \A path \in DOMAIN entries :
      CacheGet(entries, path, now) # Nil
        => CacheGet(entries, path, now) = StoreGetPad(pads, path)

\* C25: at the moment a handler creates a cache entry (GetPad's or SavePad's Cache.Set)
\* the entry holds the pad the Store holds for that path at that moment: it reflects a
\* Store state durable at its creation, and so holds nothing the Store has not held.
C25_EntryReflectsStore ==
  [][\A r \in Procs :
       (Leaves(r, "cacheSet") \/ Leaves(r, "set"))
         => /\ reqs[r].path \in DOMAIN entries'
            /\ entries'[reqs[r].path].Pad = StoreGetPad(pads', reqs[r].path)]_vars

\* ------------------------------------------------------ racing writers

\* The Update events of a queue, in queue order.
Updates(buf) == SelectSeq(buf, LAMBDA e : e.Type = "update")

DoneReadyAfterDrain(c, ch) == c.done /\ ch.buf = <<>>

\* The loop's case <-ctx.Done() can proceed: the context is cancelled. select picks
\* among the cases that can proceed at random, whatever else is ready.
DoneReady(c, ch) == c.done

\* The client disconnects: the request's context is cancelled.
CtxCancel(k) ==
  /\ LoopRunning(conns[k])
  /\ ~conns[k].done
  /\ conns' = [conns EXCEPT ![k].done = TRUE]
  /\ UNCHANGED <<pads, entries, now, clients, maxClients, rl, editor, chans, reqs, nreq, hist>>

\* The loop takes case <-ctx.Done(): ServeHTTP returns and its defers run.
ObserveDone(k) ==
  /\ DoneReady(conns[k], chans[k])
  /\ ConnCancel(k)

StopConns == {1, 2}

\* Two SSE connections on one topic whose clients disconnect while a publisher keeps
\* publishing and the keepalive tickers keep ticking.
NextStop ==
  \/ \E k \in StopConns : \E clientID \in {"c1", "c2"} : ConnSubscribe(k, PathA, clientID)
  \/ \E k \in StopConns : ConnRetry(k)
  \/ \E k \in StopConns : ConnReceive(k)
  \/ \E k \in StopConns : KeepaliveTick(k)
  \/ \E k \in StopConns : ConnKeepalive(k)
  \/ \E k \in StopConns : CtxCancel(k)
  \/ \E k \in StopConns : ObserveDone(k)
  \/ Publish(PathA, UpdateEvent("x", "c1"))

\* select chooses at random among its ready cases, so a case that stays ready is taken.
SpecStop ==
  /\ Init
  /\ [][NextStop]_vars
  /\ \A k \in StopConns : WF_vars(ObserveDone(k))

\* C27: a connection whose context is cancelled eventually leaves its loop, whatever
\* keeps arriving on its queue or ticker; and the step in which it does closes its
\* queue, leaves it registered nowhere under its topic, and removes the topic entry
\* when no other subscriber is registered there.
C27_CancelObserved ==
  /\ \A k \in StopConns :
       conns[k].done ~> (conns[k].pc = "idle" /\ chans[k].state = "closed")
  /\ [][\A k \in StopConns :
          (conns[k].done /\ ~conns'[k].done)
            => /\ chans'[k].state = "closed"
               /\ k \notin Registered(clients', conns[k].path)
               /\ (\A j \in Conns \ {k} : j \notin Registered(clients, conns[k].path))
                    => conns[k].path \notin DOMAIN clients']_vars

\* C27 witness: one connection has observed its cancellation and cleaned up (queue
\* closed, topic left), while the other, its context cancelled too, still has a full
\* queue and a keepalive tick waiting.
C27_Witness ==
  \E k, j \in StopConns :
    /\ k # j
    /\ conns[k].pc = "idle" /\ chans[k].state = "closed"
    /\ conns[j].done
    /\ conns[j].tick
    /\ Len(chans[j].buf) = ChanCap

\* ------------------------------------------------------------ keepalive

\* The loop's case event, ok := <-ch, also noting that the current ticker interval
\* has seen an event written.
ConnReceiveInInterval(k) ==
  /\ conns[k].pc = "serving"
  /\ chans[k].buf # <<>>
  /\ chans' = [chans EXCEPT ![k].buf = Tail(chans[k].buf)]
  /\ conns' = [conns EXCEPT ![k].evt = TRUE]
  /\ UNCHANGED <<pads, entries, now, clients, maxClients, rl, editor, reqs, nreq, hist>>

KeepConns == {1, 2}

\* Two SSE connections on one topic, their tickers and a publisher.
NextKeep ==
  \/ \E k \in KeepConns : \E clientID \in {"c1", "c2"} : ConnSubscribe(k, PathA, clientID)
  \/ \E k \in KeepConns : ConnRetry(k)
  \/ \E k \in KeepConns : ConnReceiveInInterval(k)
  \/ \E k \in KeepConns : KeepaliveTick(k)
  \/ \E k \in KeepConns : ConnKeepalive(k)
  \/ \E k \in KeepConns : ConnCancel(k)
  \/ \E event \in BcastEvents : Publish(PathA, event)

SpecKeep == Init /\ [][NextKeep]_vars

\* C28: a keepalive marker is written only for a ticker interval in which no event was
\* written to the client, and writing it puts nothing on any subscriber queue (it is a
\* comment on the stream, not an Event).
C28_KeepaliveOnlyWhenQuiet ==
  [][\A k \in KeepConns :
       WritesKeepalive(k) => (~conns[k].busy /\ chans' = chans)]_vars

\* ------------------------------------------------------ order of delivery

\* Queue k takes one event at its tail in this step.
AcceptsOne(k) ==
  /\ Len(chans'[k].buf) = Len(chans[k].buf) + 1
  /\ chans'[k] = [chans[k] EXCEPT !.buf = Append(@, chans'[k].buf[Len(chans'[k].buf)])]

\* C29 as stated: a subscriber's queue changes only by taking one event at its tail (a
\* publish, one copy) or by its serving loop writing the event at its head to the
\* client, so every accepted event is written, once, in the order of acceptance.
C29_EveryAcceptedEventWritten ==
  [][\A k \in Conns :
       chans'[k].buf # chans[k].buf
         => \/ AcceptsOne(k)
            \/ WritesEvent(k) /\ conns[k].pc = "serving"]_vars

\* C29 amended: as above, except that the cancel of the subscription discards the
\* events still queued; until then the queue changes only by one event accepted at its
\* tail or the event at its head written to the client, so the events written are, in
\* order and once each, a prefix of the events accepted.
C29_FifoUntilCancel ==
  [][\A k \in Conns :
       chans'[k].buf # chans[k].buf
         => \/ AcceptsOne(k)
            \/ WritesEvent(k) /\ conns[k].pc = "serving"
            \/ Cancels(k) /\ chans'[k].buf = <<>> /\ chans'[k].state = "closed"]_vars

\* C29 witness: two subscribers of one topic accepted an Update and then a Delete; one
\* still holds both in that order, the other has written the Update and holds the
\* Delete.
C29_Witness ==
  \E k, j \in Conns :
    /\ k # j
    /\ conns[k].pc = "serving" /\ conns[j].pc = "serving"
    /\ chans[k].buf = <<UpdateEvent("x", "c1"), DeleteEvent(PathA, "c2")>>
    /\ chans[j].buf = <<DeleteEvent(PathA, "c2")>>

\* ------------------------------------------------------------- bounds

\* C30: in every reachable state no topic of the map has more than maxClients
\* registered subscribers and no subscriber queue holds more than its capacity of
\* events.
C30_Bounded ==
  /\ \A path \in DOMAIN clients : Cardinality(DOMAIN clients[path]) <= maxClients
  /\ \A k \in Conns : Len(chans[k].buf) <= ChanCap

\* C30 witness: a topic holds exactly its maximum of two subscribers and the queue of
\* each of them is full.
C30_Witness ==
  \E path \in DOMAIN clients :
    /\ maxClients = 2
    /\ Cardinality(DOMAIN clients[path]) = 2
    /\ \A k \in Registered(clients, path) : Len(chans[k].buf) = ChanCap

\* ------------------------------------------------- the reader/writer lock

\* b.mu is a sync.RWMutex. Readers hold RLock (Broadcast, ClientCount). A writer
\* (Subscribe, the cleanup closure) first takes the mutex's inner writer lock and
\* announces itself, which holds new readers back, then waits for the readers inside to
\* leave, then holds Lock; its Unlock lets in every reader that was held back.
Readers(rs) == {r \in DOMAIN rs : rs[r].pc \in {"bcast", "count"}}
Writers(cs) == {k \in DOMAIN cs : cs[k].pc \in {"subLock", "cleanLock"}}
Announced(cs) == Writers(cs) \cup {k \in DOMAIN cs : cs[k].pc \in {"subPend", "cleanPend"}}

\* A write lock that is handed out while readers are inside.
CanLockIgnoringReaders(rs, cs) == TRUE

\* The inner writer lock is free: no writer is announced or inside.
CanAnnounce(cs) == Announced(cs) = {}

\* Lock returns to the announced writer: the readers that were inside have left.
CanLock(rs, cs) == Readers(rs) = {}

\* RLock returns at once: no writer is announced or inside.
CanRLock(rs, cs) == Announced(cs) = {}

\* The readers after a writer's Unlock: those held back are inside, Broadcast with the
\* topic looked up, ClientCount with the length read.
Released(rs, cl) ==
  [r \in DOMAIN rs |->
     IF rs[r].pc = "bcastWait"
       THEN [rs[r] EXCEPT !.pc = "bcast", !.body.range = Registered(cl, rs[r].path)]
     ELSE IF rs[r].pc = "countWait"
       THEN [rs[r] EXCEPT !.pc = "count", !.count = ClientCount(cl, rs[r].path)]
     ELSE rs[r]]

RwProcs == {1, 2}
RwConns == {1, 2}

\* ServeHTTP calls Subscribe, whose first statement is b.mu.Lock().
SubscribeCall(k, path, clientID) ==
  /\ conns[k].pc = "idle"
  /\ conns' = [conns EXCEPT ![k] =
                 [IdleConn EXCEPT !.pc = IF CanAnnounce(conns) THEN "subPend" ELSE "subWait",
                                  !.path = path, !.clientID = clientID]]
  /\ UNCHANGED <<pads, entries, now, clients, maxClients, rl, editor, chans, reqs, nreq, hist>>

\* The waiting Subscribe gets the inner writer lock.
SubscribeAnnounce(k) ==
  /\ conns[k].pc = "subWait"
  /\ CanAnnounce(conns)
  /\ conns' = [conns EXCEPT ![k].pc = "subPend"]
  /\ UNCHANGED <<pads, entries, now, clients, maxClients, rl, editor, chans, reqs, nreq, hist>>

\* Lock returns in Subscribe.
SubscribeLock(k) ==
  /\ conns[k].pc = "subPend"
  /\ CanLock(reqs, conns)
  /\ conns' = [conns EXCEPT ![k].pc = "subLock"]
  /\ UNCHANGED <<pads, entries, now, clients, maxClients, rl, editor, chans, reqs, nreq, hist>>

\* The body of Subscribe and its deferred Unlock.
SubscribeBody(k) ==
  /\ conns[k].pc = "subLock"
  /\ clients' = SubscribeClients(clients, conns[k].path, conns[k].clientID, k, maxClients)
  /\ IF SubscribeRefused(clients, conns[k].path, maxClients)
     THEN /\ conns' = [conns EXCEPT ![k].pc = "refused"]
          /\ UNCHANGED chans
     ELSE /\ conns' = [conns EXCEPT ![k].pc = "serving"]
          /\ chans' = [chans EXCEPT ![k] = [buf |-> <<>>, state |-> "open"]]
  /\ reqs' = Released(reqs, clients')
  /\ UNCHANGED <<pads, entries, now, maxClients, rl, editor, nreq, hist>>

\* ServeHTTP returns and its deferred cleanup runs, first statement b.mu.Lock().
CleanupCall(k) ==
  /\ conns[k].pc = "serving"
  /\ conns' = [conns EXCEPT ![k].pc = IF CanAnnounce(conns) THEN "cleanPend" ELSE "cleanWait"]
  /\ UNCHANGED <<pads, entries, now, clients, maxClients, rl, editor, chans, reqs, nreq, hist>>

\* The waiting cleanup gets the inner writer lock.
CleanupAnnounce(k) ==
  /\ conns[k].pc = "cleanWait"
  /\ CanAnnounce(conns)
  /\ conns' = [conns EXCEPT ![k].pc = "cleanPend"]
  /\ UNCHANGED <<pads, entries, now, clients, maxClients, rl, editor, chans, reqs, nreq, hist>>

\* Lock returns in the cleanup closure.
CleanupLock(k) ==
  /\ conns[k].pc = "cleanPend"
  /\ CanLock(reqs, conns)
  /\ conns' = [conns EXCEPT ![k].pc = "cleanLock"]
  /\ UNCHANGED <<pads, entries, now, clients, maxClients, rl, editor, chans, reqs, nreq, hist>>

\* The body of the cleanup closure and its deferred Unlock.
CleanupBody(k) ==
  /\ conns[k].pc = "cleanLock"
  /\ clients' = CleanupClients(clients, conns[k].path, conns[k].clientID)
  /\ chans' = [chans EXCEPT ![k] = [buf |-> <<>>, state |-> "closed"]]
  /\ conns' = [conns EXCEPT ![k] = IdleConn]
  /\ reqs' = Released(reqs, clients')
  /\ UNCHANGED <<pads, entries, now, maxClients, rl, editor, nreq, hist>>

\* A goroutine calls Broadcast: RLock returns at once and the topic is looked up, or
\* the goroutine is held back by a writer.
BroadcastCall(r, path, event) ==
  /\ reqs[r].pc = "idle"
  /\ reqs' = [reqs EXCEPT ![r] =
                [IdleReq EXCEPT
                   !.pc = IF CanRLock(reqs, conns) THEN "bcast" ELSE "bcastWait",
                   !.op = "broadcast", !.path = path,
                   !.body = [event |-> event,
                             range |-> IF CanRLock(reqs, conns)
                                       THEN Registered(clients, path) ELSE {}]]]
  /\ UNCHANGED <<pads, entries, now, clients, maxClients, rl, editor, chans, conns, nreq, hist>>

\* A goroutine calls ClientCount: RLock returns at once and the length is read, or the
\* goroutine is held back by a writer.
CountCall(r, path) ==
  /\ reqs[r].pc = "idle"
  /\ reqs' = [reqs EXCEPT ![r] =
                [IdleReq EXCEPT
                   !.pc = IF CanRLock(reqs, conns) THEN "count" ELSE "countWait",
                   !.op = "count", !.path = path,
                   !.count = IF CanRLock(reqs, conns) THEN ClientCount(clients, path)
                             ELSE 0]]
  /\ UNCHANGED <<pads, entries, now, clients, maxClients, rl, editor, chans, conns, nreq, hist>>

\* ClientCount returns and the deferred RUnlock runs.
CountReturn(r) ==
  /\ reqs[r].pc = "count"
  /\ reqs' = [reqs EXCEPT ![r] = IdleReq]
  /\ UNCHANGED <<pads, entries, now, clients, maxClients, rl, editor, chans, conns, nreq, hist>>

\* Callers of the four operations on one topic; no serving loop drains any queue.
NextRw ==
  \/ \E k \in RwConns : \E clientID \in {"c1", "c2"} : SubscribeCall(k, PathA, clientID)
  \/ \E k \in RwConns : SubscribeAnnounce(k)
  \/ \E k \in RwConns : SubscribeLock(k)
  \/ \E k \in RwConns : SubscribeBody(k)
  \/ \E k \in RwConns : ConnRetry(k)
  \/ \E k \in RwConns : CleanupCall(k)
  \/ \E k \in RwConns : CleanupAnnounce(k)
  \/ \E k \in RwConns : CleanupLock(k)
  \/ \E k \in RwConns : CleanupBody(k)
  \/ \E r \in RwProcs : BroadcastCall(r, PathA, UpdateEvent("x", "c1"))
  \/ \E r \in RwProcs : \E k \in RwConns : BroadcastSend(r, k)
  \/ \E r \in RwProcs : BroadcastRUnlock(r)
  \/ \E r \in RwProcs : CountCall(r, PathA)
  \/ \E r \in RwProcs : CountReturn(r)

\* A goroutine that can take its next statement takes it; the inner writer lock is a
\* sync.Mutex, which hands itself to a waiter that would otherwise starve.
SpecRw ==
  /\ Init
  /\ [][NextRw]_vars
  /\ \A k \in RwConns : /\ SF_vars(SubscribeAnnounce(k)) /\ SF_vars(CleanupAnnounce(k))
                        /\ WF_vars(SubscribeLock(k)) /\ WF_vars(CleanupLock(k))
                        /\ WF_vars(SubscribeBody(k)) /\ WF_vars(CleanupBody(k))
  /\ \A r \in RwProcs : /\ WF_vars(\E k \in RwConns : BroadcastSend(r, k))
                        /\ WF_vars(BroadcastRUnlock(r)) /\ WF_vars(CountReturn(r))

\* C31: at most one Subscribe or cleanup is inside its critical section, and while
\* one is, no Broadcast or ClientCount is inside its own; the topic map changes only
\* in a step of the one writer inside. (Several readers may be inside together: see
\* the witness.)
C31_ReaderWriterDiscipline ==
  /\ [](/\ Cardinality(Writers(conns)) <= 1
        /\ Writers(conns) # {} => Readers(reqs) = {})
  /\ [][clients' # clients
          => /\ Readers(reqs) = {}
             /\ \E k \in RwConns : Writers(conns) = {k} /\ conns'[k].pc # conns[k].pc]_vars

\* C31 witness: a Broadcast and a ClientCount are inside their critical sections at
\* the same time, with a subscriber registered and no writer inside.
C31_Witness ==
  /\ \E r1, r2 \in RwProcs : reqs[r1].pc = "bcast" /\ reqs[r2].pc = "count"
  /\ Writers(conns) = {}
  /\ \E k \in RwConns : conns[k].pc = "serving"

\* C32: every Subscribe, cleanup, Broadcast and ClientCount call that was made returns,
\* with nothing draining the queues: no caller waits for ever for the lock or for room
\* in a queue.
C32_EveryCallReturns ==
  /\ \A k \in RwConns :
       (conns[k].pc \in {"subWait", "subPend", "subLock", "cleanWait", "cleanPend", "cleanLock"})
         ~> (conns[k].pc \in {"idle", "serving", "refused"})
  /\ \A r \in RwProcs : (reqs[r].pc # "idle") ~> (reqs[r].pc = "idle")

\* C32 witness: a Broadcast is inside its range over a topic whose subscriber queues
\* are all full, while a cleanup is announced and another Broadcast is held back.
C32_Witness ==
  \E r1, r2 \in RwProcs : \E k \in RwConns :
    /\ reqs[r1].pc = "bcast"
    /\ reqs[r1].body.range # {}
    /\ \A j \in reqs[r1].body.range : Len(chans[j].buf) = ChanCap
    /\ reqs[r2].pc = "bcastWait"
    /\ conns[k].pc = "cleanPend"

\* ------------------------------------------------- topics along one branch

\* A pad, its parent and the root as topics.
BranchTopics == {Root, PathAB, PathABC}

NextBranch ==
  \/ \E k \in Conns : \E path \in BranchTopics, clientID \in {"c1", "c2"} :
       ConnSubscribe(k, path, clientID)
  \/ \E k \in Conns : ConnRetry(k)
  \/ \E k \in Conns : ConnReceive(k)
  \/ \E k \in Conns : ConnCancel(k)
  \/ \E path \in BranchTopics : Publish(path, UpdateEvent("x", "c1"))

SpecBranch == Init /\ [][NextBranch]_vars

\* C33: in every reachable state, a Broadcast on a topic leaves the queue of every
\* connection serving another topic as it is, an ancestor's or a descendant's included;
\* the queues it changes are registered under exactly the published path.
C33_PublishOnlyOwnTopic ==
  \A path \in BranchTopics : \A event \in BcastEvents : \A k \in Conns :
    /\ (conns[k].pc = "serving" /\ conns[k].path # path)
         => Broadcast(chans, clients, path, event)[k] = chans[k]
    /\ Broadcast(chans, clients, path, event)[k] # chans[k]
         => (path \in DOMAIN clients /\ \E id \in DOMAIN clients[path] : clients[path][id] = k)

\* C33 witness: the root, a pad and its child each have a subscriber; the pad's
\* subscriber holds one event, the queues of the other two are empty.
C33_Witness ==
  \E k1, k2, k3 \in Conns :
    /\ conns[k1].pc = "serving" /\ conns[k1].path = Root /\ k1 \in Registered(clients, Root)
    /\ conns[k2].pc = "serving" /\ conns[k2].path = PathAB
    /\ k2 \in Registered(clients, PathAB)
    /\ conns[k3].pc = "serving" /\ conns[k3].path = PathABC
    /\ k3 \in Registered(clients, PathABC)
    /\ chans[k1].buf = <<>> /\ chans[k3].buf = <<>>
    /\ Len(chans[k2].buf) = 1

\* ------------------------------------------------- writes below implicit pads

\* The ancestors of a path: its parent, the parent's parent, ... up to the root.
RECURSIVE Ancestors(_)
Ancestors(path) ==
  IF path = Root THEN {}
  ELSE {ParentPath(path)} \cup Ancestors(ParentPath(path))

\* C35: the upsert of a write on p adds or updates the row of p with the written
\* content and leaves the table otherwise as it was: no other row appears, changes or
\* goes, whether the ancestors of p have rows or not; and when a write has been
\* answered 200 the row of p is there with the written content.
C35_WriteOnlyOwnRecord ==
  /\ [][\A r \in Procs :
          (reqs[r].pc = "store" /\ reqs[r].op = "write" /\ reqs'[r].pc = "reread") =>
            /\ DOMAIN pads' = DOMAIN pads \cup {reqs[r].path}
            /\ pads'[reqs[r].path].content = reqs[r].content
            /\ \A q \in DOMAIN pads \ {reqs[r].path} : pads'[q] = pads[q]]_vars
  /\ [](\A r \in Procs :
          (reqs[r].pc = "done" /\ reqs[r].op = "write" /\ reqs[r].status = 200) =>
            /\ reqs[r].path \in DOMAIN pads
            /\ pads[reqs[r].path].content = reqs[r].content)

\* C35 witness: a write on "ab/c" was answered 200 and its row is there, while its
\* parent "ab" and the root have no row.
C35_Witness ==
  \E r \in Procs :
    /\ reqs[r].pc = "done"
    /\ reqs[r].op = "write"
    /\ reqs[r].path = PathABC
    /\ reqs[r].status = 200
    /\ PathABC \in DOMAIN pads
    /\ Ancestors(PathABC) \cap DOMAIN pads = {}

\* ------------------------------------------------- the pad a write returns

\* C36: a write answered 200 carries in its body a pad with the path of the request
\* and the content the request wrote, whatever other writes and deletes ran on the path
\* meanwhile.
C36_WriteReturnsOwnContent ==
  \A r \in Procs :
    (reqs[r].pc = "done" /\ reqs[r].op = "write" /\ reqs[r].status = 200) =>
      /\ reqs[r].body.Path = reqs[r].path
      /\ reqs[r].body.Content = reqs[r].content

\* ------------------------------------------------- the timestamps of a record

\* SQLiteStore.SavePad: now := time.Now().Unix(), read before the statement is sent.
\* stamp is 0 until the clock was read (the clock starts at 1).
SaveClock(r) ==
  /\ reqs[r].pc = "store"
  /\ reqs[r].op = "write"
  /\ reqs[r].stamp = 0
  /\ reqs' = [reqs EXCEPT ![r].stamp = now]
  /\ UNCHANGED <<pads, entries, now, clients, maxClients, rl, editor, chans, conns, nreq, hist>>

\* SQLiteStore.SavePad: the upsert, run with the time read earlier.
SaveStoreAt(r) ==
  /\ reqs[r].pc = "store"
  /\ reqs[r].op = "write"
  /\ reqs[r].stamp # 0
  /\ pads' = StoreUpsert(pads, reqs[r].path, reqs[r].content, reqs[r].stamp)
  /\ reqs' = [reqs EXCEPT ![r].pc = "reread", ![r].did = @ \cup {"store"}]
  /\ UNCHANGED <<entries, now, clients, maxClients, rl, editor, chans, conns, nreq, hist>>

\* Writes and deletes on a pad and its child, running concurrently.
StampPaths == {PathAB, PathABC}

NextStamp ==
  \/ \E r \in Procs : \E path \in StampPaths, content \in Contents :
       ReqStart(r, NumProcs, MaxRequests, "write", path, content, "c1")
  \/ \E r \in Procs : \E path \in StampPaths :
       ReqStart(r, NumProcs, MaxRequests, "delete", path, "", "c1")
  \/ \E r \in Procs : SaveClock(r)
  \/ \E r \in Procs : SaveStoreAt(r)
  \/ \E r \in Procs : SaveReread(r)
  \/ \E r \in Procs : SaveInvalidate(r)
  \/ \E r \in Procs : SaveSet(r)
  \/ \E r \in Procs : DeleteStore(r)
  \/ \E r \in Procs : DeleteInvalidatePrefix(r)
  \/ \E r \in Procs : ReqPublish(r)
  \/ \E r \in Procs : ReqPublishParent(r)
  \/ \E r \in Procs : ReqReturn(r)
  \/ Tick

SpecStamp == Init /\ [][NextStamp]_vars

\* C37: every row of the table has parent_path = ParentPath(path) and
\* created_at <= updated_at, and as long as the row is there its created_at stays what
\* it was.
C37_RecordInvariants ==
  /\ [](\A p \in DOMAIN pads :
          /\ pads[p].parent_path = ParentPath(p)
          /\ pads[p].created_at <= pads[p].updated_at)
  /\ [][\A p \in DOMAIN pads \cap DOMAIN pads' :
          pads'[p].created_at = pads[p].created_at]_vars

\* ------------------------------------------------- requests with invalid paths

\* Normalized paths ValidatePath rejects, one for each of its rules: a reserved first
\* segment, a character outside the pattern, a leading '_', eleven segments, a segment
\* of 65 characters, and 513 characters in eight segments of at most 64.
PathReserved == <<"a", "p", "i", "/", "a">>
PathInvalidChar == <<"a", "!">>
PathTooDeep == [i \in 1..(2 * maxDepth + 1) |-> IF i % 2 = 1 THEN "a" ELSE "/"]
PathLongSegment == [i \in 1..(maxSegmentLength + 1) |-> "a"]
PathTooLong ==
  [i \in 1..(maxPathLength + 1) |-> IF i % (maxSegmentLength + 1) = 0 THEN "/" ELSE "a"]
InvalidPaths ==
  {PathReserved, PathInvalidChar, PathBad, PathTooDeep, PathLongSegment, PathTooLong}
\* NormalizePath collapses "//", so no request carries this one.
PathEmptySegment == <<"a", "/", "/", "b">>

\* The four handlers, one request at a time, on a valid path and on the invalid ones.
ValidityPaths == InvalidPaths \cup {PathAB}
ValidityOps == {"read", "write", "delete", "children"}

NextValidity ==
  \/ \E op \in ValidityOps, path \in ValidityPaths, content \in Contents :
       ReqStart(1, 1, MaxRequests, op, path, content, "c1")
  \/ HandlerStep(1)
  \/ ChildrenStoreGet(1)

SpecValidity == Init /\ [][NextValidity]_vars

\* C38: ValidatePath rejects a path that breaks any one of its rules; a request of any
\* of the four handlers carrying such a path is never anywhere but at its answer, which
\* is 400, and no step of such a request, its arrival included, changes the table, the
\* cache, the topics or a queue.
C38_InvalidPathRejected ==
  /\ [](\A p \in InvalidPaths \cup {PathEmptySegment} : ~ValidatePath(p))
  /\ [](\A r \in Procs :
          (reqs[r].pc # "idle" /\ reqs[r].path \in InvalidPaths) =>
            /\ reqs[r].pc = "done"
            /\ reqs[r].status = 400
            /\ reqs[r].did = {})
  /\ [][\A r \in Procs :
          (reqs'[r] # reqs[r] /\ (reqs[r].path \in InvalidPaths \/ reqs'[r].path \in InvalidPaths)
             /\ (reqs[r].pc = "idle" \/ reqs[r].path \in InvalidPaths))
            => UNCHANGED <<pads, entries, clients, chans, hist>>]_vars

\* C38 witness: a write on the path of 513 characters has been answered 400 while the
\* table holds the row an earlier write stored.
C38_Witness ==
  /\ reqs[1].pc = "done"
  /\ reqs[1].op = "write"
  /\ reqs[1].path = PathTooLong
  /\ reqs[1].status = 400
  /\ PathAB \in DOMAIN pads

\* ------------------------------------------------------- the rate limiter

\* The limits the setting is given, the window (time.Minute, scaled to one tick of the
\* clock), the last tick of the clock and the requests that arrive.
MaxLimit == 2
window == 1
RateMaxTime == 4
RateRequests == 5
RateLimits == 0..MaxLimit
IPs == {"ip1", "ip2"}

\* The visitor a request opens a window with. passed and refused count the requests
\* of the window handed to next.ServeHTTP and answered 429.
NewVisitor(t) == [count |-> 1, resetAt |-> t + window, passed |-> 1, refused |-> 0]

\* RateLimiter.Middleware under rl.mu: the visitors after a request of ip at time t.
MiddlewareVisitors(lim, visitors, ip, t) ==
  IF ip \notin DOMAIN visitors \/ t > visitors[ip].resetAt
  THEN Put(visitors, ip, NewVisitor(t))
  ELSE IF visitors[ip].count + 1 > lim
  THEN [visitors EXCEPT ![ip].count = @ + 1, ![ip].refused = @ + 1]
  ELSE [visitors EXCEPT ![ip].count = @ + 1, ![ip].passed = @ + 1]

\* A request of ip goes through the middleware.
Middleware(ip) ==
  /\ nreq < RateRequests
  /\ nreq' = nreq + 1
  /\ rl' = [rl EXCEPT !.visitors = MiddlewareVisitors(rl.limit, rl.visitors, ip, now)]
  /\ UNCHANGED <<pads, entries, now, clients, maxClients, chans, conns, reqs, hist, editor>>

\* The goroutine of NewRateLimiter: the visitors whose window has ended are deleted.
RateCleanup ==
  /\ rl' = [rl EXCEPT !.visitors =
              [ip \in {i \in DOMAIN rl.visitors : ~(now > rl.visitors[i].resetAt)} |->
                 rl.visitors[ip]]]
  /\ rl' # rl
  /\ UNCHANGED <<pads, entries, now, clients, maxClients, chans, conns, reqs, nreq, hist, editor>>

\* A tick of the clock the limiter reads.
RateTick ==
  /\ now < RateMaxTime
  /\ now' = now + 1
  /\ UNCHANGED <<pads, entries, clients, maxClients, rl, chans, conns, reqs, nreq, hist, editor>>

InitRate ==
  /\ InitServer
  /\ \E limit \in RateLimits : rl = NewRateLimiter(limit)

NextRate ==
  \/ \E ip \in IPs : Middleware(ip)
  \/ RateCleanup
  \/ RateTick

SpecRate == InitRate /\ [][NextRate]_vars

\* C39: for every configured limit and every IP, at most `limit` requests of a window
\* are handed to the next handler; a request arriving in a window that has already
\* handed on `limit` requests is answered 429; and the window of an IP is replaced
\* only when the clock has passed its end.
C39_AtMostLimitPerWindow ==
  /\ [](\A ip \in DOMAIN rl.visitors : rl.visitors[ip].passed <= rl.limit)
  /\ [][\A ip \in DOMAIN rl.visitors \cap DOMAIN rl'.visitors :
          /\ rl'.visitors[ip].resetAt # rl.visitors[ip].resetAt
               => now > rl.visitors[ip].resetAt
          /\ (rl'.visitors[ip].count = rl.visitors[ip].count + 1
                /\ rl.visitors[ip].passed >= rl.limit)
               => /\ rl'.visitors[ip].passed = rl.visitors[ip].passed
                  /\ rl'.visitors[ip].refused = rl.visitors[ip].refused + 1]_vars

====
